---- MODULE Spec2Model ----
(***************************************************************************)
(* Model of the page-selection parser of the PDF toolkit                   *)
(* (parsePageSelection.js) and of a caller that applies it to one input.   *)
(*                                                                         *)
(* A JavaScript string is a sequence of one-character strings; an error    *)
(* message is a TLA+ string built by concatenation, as the template        *)
(* literals of the source build it.  totalPages is a record so that the    *)
(* value undefined can stand beside the numbers.                           *)
(***************************************************************************)
EXTENDS Integers, Sequences, FiniteSets, TLC

VARIABLES
  \* one call of the parser
  input, totalPages, pc, result,
  \* the merger (PDFMerger.js)
  pdfFiles, merging, mergedPdf, mergeJob, nextId,
  \* the splitter (PDFSplitter.js)
  pdfBytes, pdfInfo, rangesInput, rangeErrors, splitResults, splitting,
  splitJob, objectUrls,
  \* the password tool (PDFPasswordProtect.js)
  protectFiles, passwordOptions, protectProcessing, processedFiles,
  protectNotification, protectJob, protectNextId,
  \* the page remover (PDFPageRemover.js)
  removerPdfBytes, removerPdfInfo, removerPages, removerProcessing,
  removerDownload, removerJob,
  \* the page organizer (PDFPageOrganizer.js)
  organizerPdfBytes, organizerPdfInfo, organizerPages, originalPagesRef,
  organizerProcessing, organizerDownload, organizerJob

parserVars == <<input, totalPages, pc, result>>

mergerVars == <<pdfFiles, merging, mergedPdf, mergeJob, nextId>>

splitterVars ==
  <<pdfBytes, pdfInfo, rangesInput, rangeErrors, splitResults, splitting,
    splitJob, objectUrls>>

protectVars ==
  <<protectFiles, passwordOptions, protectProcessing, processedFiles,
    protectNotification, protectJob, protectNextId>>

removerVars ==
  <<removerPdfBytes, removerPdfInfo, removerPages, removerProcessing,
    removerDownload, removerJob>>

organizerVars ==
  <<organizerPdfBytes, organizerPdfInfo, organizerPages, originalPagesRef,
    organizerProcessing, organizerDownload, organizerJob>>

vars ==
  <<parserVars, mergerVars, splitterVars, protectVars, removerVars,
    organizerVars>>

(***************************************************************************)
(* Bounds of the checked inputs.                                           *)
(***************************************************************************)
\* longest input over the whole alphabet
MaxLen == 4
\* longest input over the alphabet of page lists
MaxListLen == 5
\* largest page count
MaxPages == 2
\* most negative page count is 0 - NegPages
NegPages == 1
\* most files dropped on the merger in one run
MaxDrops == 2

\* characters an input is drawn from
Chars == {"0", "1", "2", "-", ",", " ", "*", "a"}
\* characters of the longer page lists
ListChars == {"1", "2", "-", ","}

Strings(chars, n) == UNION {[1..k -> chars] : k \in 0..n}

Inputs == Strings(Chars, MaxLen) \cup Strings(ListChars, MaxListLen)

(***************************************************************************)
(* JavaScript values.                                                      *)
(***************************************************************************)
null == "null"

undefined == [defined |-> FALSE, value |-> 0]

Num(n) == [defined |-> TRUE, value |-> n]

TotalPagesValues == {undefined} \cup {Num(n) : n \in (0 - NegPages)..MaxPages}

\* !totalPages: undefined and 0 are falsy, every other number is truthy
Falsy(tp) == ~tp.defined \/ tp.value = 0

(***************************************************************************)
(* String primitives.                                                      *)
(***************************************************************************)
\* \s of a regular expression, and what trim() strips
Whitespace == {" ", "\t", "\n", "\r"}

\* \d of a regular expression
DigitChars == <<"0", "1", "2", "3", "4", "5", "6", "7", "8", "9">>

Digits == {DigitChars[i] : i \in 1..10}

DigitValue(c) == (CHOOSE i \in 1..10 : DigitChars[i] = c) - 1

RECURSIVE TrimStart(_)
TrimStart(s) ==
  IF s # <<>> /\ Head(s) \in Whitespace THEN TrimStart(Tail(s)) ELSE s

RECURSIVE TrimEnd(_)
TrimEnd(s) ==
  IF s # <<>> /\ s[Len(s)] \in Whitespace
    THEN TrimEnd(SubSeq(s, 1, Len(s) - 1))
    ELSE s

\* input.trim()
Trim(s) == TrimEnd(TrimStart(s))

\* the g flag forgotten: only the first run of whitespace is removed
RemoveFirstWhitespaceRun(s) ==
  IF \E k \in 1..Len(s) : s[k] \in Whitespace
    THEN LET a == CHOOSE k \in 1..Len(s) :
                    s[k] \in Whitespace /\ \A m \in 1..(k - 1) : s[m] \notin Whitespace
             b == CHOOSE k \in a..Len(s) :
                    /\ \A m \in a..k : s[m] \in Whitespace
                    /\ (k = Len(s) \/ s[k + 1] \notin Whitespace)
         IN SubSeq(s, 1, a - 1) \o SubSeq(s, b + 1, Len(s))
    ELSE s

\* input.replace(/\s+/g, '')
RemoveWhitespace(s) == SelectSeq(s, LAMBDA c : c \notin Whitespace)

\* cleanedInput.split(',')
RECURSIVE Split(_)
Split(s) ==
  IF \E k \in 1..Len(s) : s[k] = ","
    THEN LET k == CHOOSE j \in 1..Len(s) :
                    s[j] = "," /\ \A m \in 1..(j - 1) : s[m] # ","
         IN <<SubSeq(s, 1, k - 1)>> \o Split(SubSeq(s, k + 1, Len(s)))
    ELSE <<s>>

\* the empty segments kept, filter(Boolean) forgotten
FilterBooleanKeepsEmpty(segs) == segs

\* .filter(Boolean) on an array of strings: the empty string is falsy
FilterBoolean(segs) == SelectSeq(segs, LAMBDA x : x # <<>>)

\* parseInt(digits, 10) of a string of decimal digits
RECURSIVE parseInt(_)
parseInt(s) ==
  IF Len(s) = 0 THEN 0
  ELSE parseInt(SubSeq(s, 1, Len(s) - 1)) * 10 + DigitValue(s[Len(s)])

\* `${n}` of a non-negative integer
RECURSIVE NumToStr(_)
NumToStr(n) ==
  IF n < 10 THEN DigitChars[n + 1]
  ELSE NumToStr(n \div 10) \o DigitChars[(n % 10) + 1]

\* `${segment}`: the characters of the segment, as a string
RECURSIVE SegToStr(_)
SegToStr(s) == IF s = <<>> THEN "" ELSE Head(s) \o SegToStr(Tail(s))

(***************************************************************************)
(* The regular expressions of the segment loop.                            *)
(***************************************************************************)
\* length of the longest prefix of s made of digits
DigitRun(s) ==
  IF \E k \in 1..Len(s) : s[k] \notin Digits
    THEN (CHOOSE k \in 1..Len(s) :
            s[k] \notin Digits /\ \A m \in 1..(k - 1) : s[m] \in Digits) - 1
    ELSE Len(s)

\* segment.match(/^\d+$/) is not null
SinglePageMatch(segment) == Len(segment) >= 1 /\ DigitRun(segment) = Len(segment)

\* segment.match(/^(\d+)-(\d+)$/): the two groups, or <<>> for null
RangeMatch(segment) ==
  LET n == DigitRun(segment)
      rest == SubSeq(segment, n + 2, Len(segment))
  IN IF /\ n >= 1
        /\ n < Len(segment)
        /\ segment[n + 1] = "-"
        /\ Len(rest) >= 1
        /\ DigitRun(rest) = Len(rest)
       THEN <<SubSeq(segment, 1, n), rest>>
       ELSE <<>>

(***************************************************************************)
(* pagesSet: a JavaScript Set keeps its elements in insertion order.       *)
(***************************************************************************)
\* an array in place of the Set: a page named twice is kept twice
SetAddDuplicate(pagesSet, v) == Append(pagesSet, v)

\* pagesSet.add(v)
SetAdd(pagesSet, v) ==
  IF \E i \in 1..Len(pagesSet) : pagesSet[i] = v
    THEN pagesSet
    ELSE Append(pagesSet, v)

\* the last page of the range left out: page < end in place of page <= end
RECURSIVE AddRangeExclusive(_, _, _)
AddRangeExclusive(pagesSet, page, end) ==
  IF page < end
    THEN AddRangeExclusive(SetAdd(pagesSet, page - 1), page + 1, end)
    ELSE pagesSet

\* for (let page = start; page <= end; page += 1) pagesSet.add(page - 1)
RECURSIVE AddRange(_, _, _)
AddRange(pagesSet, page, end) ==
  IF page <= end
    THEN AddRange(SetAdd(pagesSet, page - 1), page + 1, end)
    ELSE pagesSet

\* insertion of v into an ascending sequence
RECURSIVE InsertSorted(_, _)
InsertSorted(sorted, v) ==
  IF sorted = <<>> THEN <<v>>
  ELSE IF v - Head(sorted) < 0 THEN <<v>> \o sorted
  ELSE <<Head(sorted)>> \o InsertSorted(Tail(sorted), v)

\* the Set's insertion order, the sort forgotten
SortPagesUnsorted(pagesSet) == pagesSet

\* Array.from(pagesSet).sort((a, b) => a - b)
RECURSIVE SortPages(_)
SortPages(pagesSet) ==
  IF pagesSet = <<>> THEN <<>>
  ELSE InsertSorted(SortPages(SubSeq(pagesSet, 1, Len(pagesSet) - 1)),
                    pagesSet[Len(pagesSet)])

\* Array.from({ length: totalPages }, (_, index) => index); a negative
\* length is an empty array
AllPages(n) == IF n <= 0 THEN <<>> ELSE [index \in 1..n |-> index - 1]

(***************************************************************************)
(* parsePageSelection.                                                     *)
(***************************************************************************)
Failure(message) == [pages |-> <<>>, error |-> message]

\* one pass of the loop body: error is null when the loop goes on
Continue(pagesSet) == [error |-> null, pagesSet |-> pagesSet]

Return(message, pagesSet) == [error |-> message, pagesSet |-> pagesSet]

\* page 0 let through: pageNumber < 0 in place of pageNumber < 1
SinglePageFromZero(segment, n, pagesSet) ==
  LET pageNumber == parseInt(segment)
  IN IF pageNumber < 0 \/ pageNumber > n
       THEN Return("Page " \o NumToStr(pageNumber) \o " is out of bounds", pagesSet)
       ELSE Continue(SetAdd(pagesSet, pageNumber - 1))

\* if (singlePageMatch) { ... }
SinglePage(segment, n, pagesSet) ==
  LET pageNumber == parseInt(segment)
  IN IF pageNumber < 1 \/ pageNumber > n
       THEN Return("Page " \o NumToStr(pageNumber) \o " is out of bounds", pagesSet)
       ELSE Continue(SetAdd(pagesSet, pageNumber - 1))

\* the bounds check made before the order check
RangeBoundsFirst(segment, n, pagesSet) ==
  LET start == parseInt(RangeMatch(segment)[1])
      end == parseInt(RangeMatch(segment)[2])
  IN IF start < 1 \/ end > n
       THEN Return("Range " \o SegToStr(segment) \o " is out of bounds", pagesSet)
       ELSE IF start > end
       THEN Return("Range " \o SegToStr(segment)
                     \o " is invalid (start greater than end)", pagesSet)
       ELSE Continue(AddRange(pagesSet, start, end))

\* the last page refused: end >= totalPages in place of end > totalPages
RangeLastPageRefused(segment, n, pagesSet) ==
  LET start == parseInt(RangeMatch(segment)[1])
      end == parseInt(RangeMatch(segment)[2])
  IN IF start > end
       THEN Return("Range " \o SegToStr(segment)
                     \o " is invalid (start greater than end)", pagesSet)
       ELSE IF start < 1 \/ end >= n
       THEN Return("Range " \o SegToStr(segment) \o " is out of bounds", pagesSet)
       ELSE Continue(AddRange(pagesSet, start, end))

\* if (rangeMatch) { ... }
Range(segment, n, pagesSet) ==
  LET start == parseInt(RangeMatch(segment)[1])
      end == parseInt(RangeMatch(segment)[2])
  IN IF start > end
       THEN Return("Range " \o SegToStr(segment)
                     \o " is invalid (start greater than end)", pagesSet)
       ELSE IF start < 1 \/ end > n
       THEN Return("Range " \o SegToStr(segment) \o " is out of bounds", pagesSet)
       ELSE Continue(AddRange(pagesSet, start, end))

\* a segment that matches neither pattern skipped, not reported
LoopBodySkipsMalformed(segment, n, pagesSet) ==
  IF SinglePageMatch(segment) THEN SinglePage(segment, n, pagesSet)
  ELSE IF RangeMatch(segment) # <<>> THEN Range(segment, n, pagesSet)
  ELSE Continue(pagesSet)

\* the body of for (const segment of segments)
LoopBody(segment, n, pagesSet) ==
  IF SinglePageMatch(segment) THEN SinglePage(segment, n, pagesSet)
  ELSE IF RangeMatch(segment) # <<>> THEN Range(segment, n, pagesSet)
  ELSE Return("\"" \o SegToStr(segment) \o "\" is not a valid page or range",
              pagesSet)

\* what follows the loop
AfterLoop(pagesSet) ==
  IF Len(pagesSet) = 0
    THEN Failure("No valid pages selected")
    ELSE [pages |-> SortPages(pagesSet), error |-> null]

\* the loop run to its end, the error of the last invalid segment reported
RECURSIVE ForSegmentsLastError(_, _, _, _)
ForSegmentsLastError(segments, i, n, pagesSet) ==
  IF i > Len(segments) THEN AfterLoop(pagesSet)
  ELSE LET step == LoopBody(segments[i], n, pagesSet)
       IN IF /\ step.error # null
             /\ ~\E j \in (i + 1)..Len(segments) :
                   LoopBody(segments[j], n, <<>>).error # null
            THEN Failure(step.error)
            ELSE ForSegmentsLastError(segments, i + 1, n, step.pagesSet)

\* for (const segment of segments) { ... } and what follows it; a return in
\* the body leaves the function
RECURSIVE ForSegments(_, _, _, _)
ForSegments(segments, i, n, pagesSet) ==
  IF i > Len(segments) THEN AfterLoop(pagesSet)
  ELSE LET step == LoopBody(segments[i], n, pagesSet)
       IN IF step.error # null
            THEN Failure(step.error)
            ELSE ForSegments(segments, i + 1, n, step.pagesSet)

\* cleanedInput.split(',').filter(Boolean)
Segments(in) == FilterBoolean(Split(RemoveWhitespace(in)))

\* the input compared as typed, trim() forgotten
SelectsEverythingUntrimmed(in) == Len(in) = 0 \/ in = <<"*">>

\* !input || input.trim() === '' || input.trim() === '*'
SelectsEverything(in) == Len(in) = 0 \/ Trim(in) = <<>> \/ Trim(in) = <<"*">>

parsePageSelection(in, tp) ==
  IF Falsy(tp) THEN Failure("Unknown page count")
  ELSE IF SelectsEverything(in)
    THEN [pages |-> AllPages(tp.value), error |-> null]
  ELSE IF Len(Segments(in)) = 0
    THEN Failure("Enter at least one page number or range")
  ELSE ForSegments(Segments(in), 1, tp.value, <<>>)

(***************************************************************************)
(* The splitter (PDFSplitter.js) before a document is dropped on it.       *)
(*                                                                         *)
(* pdfBytes is null or the bytes of a document of so many pages; pdfInfo   *)
(* is null or the record onDrop builds.  splitJob is the call of           *)
(* handleSplit in flight with the localErrors and pendingResults its loop  *)
(* arrives at; objectUrls are the object URLs created and not yet revoked. *)
(***************************************************************************)
NoBytes == [present |-> FALSE, pages |-> 0]

NoInfo ==
  [present |-> FALSE, name |-> <<>>, baseName |-> <<>>, extension |-> <<>>,
   totalPages |-> 0]

NoSplitJob == [running |-> FALSE, localErrors |-> <<>>, pendingResults |-> <<>>]

SplitterIdle ==
  /\ pdfBytes = NoBytes
  /\ pdfInfo = NoInfo
  /\ rangesInput = <<>>
  /\ rangeErrors = <<>>
  /\ splitResults = <<>>
  /\ splitting = FALSE
  /\ splitJob = NoSplitJob
  /\ objectUrls = {}

(***************************************************************************)
(* The password tool (PDFPasswordProtect.js), the page remover             *)
(* (PDFPageRemover.js) and the page organizer (PDFPageOrganizer.js) before *)
(* anything is dropped on them.                                            *)
(*                                                                         *)
(* A notification is null or [message, type].  The bytes of a document of  *)
(* the remover and of the organizer are the sequence of its pages, each    *)
(* the number the page had in the file that was dropped.  A job is the     *)
(* call of the asynchronous handler in flight, with what it will store.    *)
(***************************************************************************)
\* const defaultPassword: user, confirm and owner (restrictCopying and
\* allowPrinting guard nothing and are left out)
defaultPassword == [user |-> "", confirm |-> "", owner |-> ""]

NoNotification == [message |-> "", type |-> "none"]

NoProtectJob == [running |-> FALSE, outputs |-> <<>>]

ProtectIdle ==
  /\ protectFiles = <<>>
  /\ passwordOptions = defaultPassword
  /\ protectProcessing = FALSE
  /\ processedFiles = <<>>
  /\ protectNotification = NoNotification
  /\ protectJob = NoProtectJob
  /\ protectNextId = 1

\* pdfBytes: null
NoDocument == [present |-> FALSE, doc |-> <<>>]

\* downloadPayload: null
NoDownload == [present |-> FALSE, doc |-> <<>>, fileName |-> <<>>]

NoRemoverJob == [running |-> FALSE, doc |-> <<>>, fileName |-> <<>>]

RemoverIdle ==
  /\ removerPdfBytes = NoDocument
  /\ removerPdfInfo = NoInfo
  /\ removerPages = <<>>
  /\ removerProcessing = FALSE
  /\ removerDownload = NoDownload
  /\ removerJob = NoRemoverJob

\* downloadPayload of the organizer: null
NoExport == [present |-> FALSE, fileName |-> <<>>]

NoOrganizerJob == [running |-> FALSE, fileName |-> <<>>]

OrganizerIdle ==
  /\ organizerPdfBytes = NoDocument
  /\ organizerPdfInfo = NoInfo
  /\ organizerPages = <<>>
  /\ originalPagesRef = <<>>
  /\ organizerProcessing = FALSE
  /\ organizerDownload = NoExport
  /\ organizerJob = NoOrganizerJob

(***************************************************************************)
(* The merger (PDFMerger.js).                                              *)
(*                                                                         *)
(* A listed file is [id, totalPages, pageSelection, pageSelectionError];   *)
(* its bytes are a document of totalPages pages and do not change.  A      *)
(* merged document is the sequence of its pages, each <<id, index>>: the   *)
(* page index of file id.  mergePDFs is asynchronous: between its awaits   *)
(* it reads only the list captured when it was called and the bytes of     *)
(* those files, and writes only its local mergedDoc, so what it will do    *)
(* is fixed at the call; mergeJob carries it until the call ends.          *)
(***************************************************************************)
\* the page counts of the files dropped: an empty document, a single page
\* (default selection "1") and two pages (default selection "1-2")
PageCounts == {0, 1, 2}

\* the texts typed in a page-selection field
SelectionEdits == {<<"2", ",", "1">>, <<"0">>}

\* `${n}` of a non-negative integer, as characters
RECURSIVE NumToChars(_)
NumToChars(n) ==
  IF n < 10 THEN <<DigitChars[n + 1]>>
  ELSE NumToChars(n \div 10) \o <<DigitChars[(n % 10) + 1]>>

\* mergedPdf: null, or the object URL of a merged document
NoPdf == [present |-> FALSE, pages |-> <<>>]

Pdf(pages) == [present |-> TRUE, pages |-> pages]

NoJob == [running |-> FALSE, files |-> <<>>, error |-> null, doc |-> <<>>]

MergerIdle ==
  /\ pdfFiles = <<>>
  /\ merging = FALSE
  /\ mergedPdf = NoPdf
  /\ mergeJob = NoJob
  /\ nextId = 1

\* totalPages === 1 ? '1' : `1-${totalPages}`
DefaultSelection(n) ==
  IF n = 1 THEN <<"1">> ELSE <<"1", "-">> \o NumToChars(n)

\* the record onDrop builds for a file that loads with n pages
NewFile(id, n) ==
  [id |-> id,
   totalPages |-> n,
   pageSelection |-> DefaultSelection(n),
   pageSelectionError |-> null]

\* onDrop with at least one file that loads: counts are the page counts of
\* the files that load, in their order
OnDrop(counts) ==
  /\ Len(counts) >= 1
  /\ nextId + Len(counts) - 1 <= MaxDrops
  /\ pdfFiles' = pdfFiles \o [i \in 1..Len(counts) |-> NewFile(nextId + i - 1, counts[i])]
  /\ nextId' = nextId + Len(counts)
  /\ UNCHANGED <<merging, mergedPdf, mergeJob, parserVars, splitterVars,
                 protectVars, removerVars, organizerVars>>

\* onDrop with no PDF among the files, or with no file that loads
OnDropNothing == UNCHANGED vars

\* removeFile(id)
RemoveFile(id) ==
  /\ \E i \in 1..Len(pdfFiles) : pdfFiles[i].id = id
  /\ pdfFiles' = SelectSeq(pdfFiles, LAMBDA pdf : pdf.id # id)
  /\ UNCHANGED <<merging, mergedPdf, mergeJob, nextId, parserVars, splitterVars,
                 protectVars, removerVars, organizerVars>>

\* the body of the map of handlePageSelectionChange
WithPageSelection(pdf, id, value) ==
  IF pdf.id # id THEN pdf
  ELSE [pdf EXCEPT !.pageSelection = value,
                   !.pageSelectionError =
                      parsePageSelection(value, Num(pdf.totalPages)).error]

\* handlePageSelectionChange(id, value)
HandlePageSelectionChange(id, value) ==
  /\ \E i \in 1..Len(pdfFiles) : pdfFiles[i].id = id
  /\ pdfFiles' = [i \in 1..Len(pdfFiles) |-> WithPageSelection(pdfFiles[i], id, value)]
  /\ UNCHANGED <<merging, mergedPdf, mergeJob, nextId, parserVars, splitterVars,
                 protectVars, removerVars, organizerVars>>

\* items.splice(index, 1) of a 0-based index: the items left
SpliceOut(items, index) ==
  SubSeq(items, 1, index) \o SubSeq(items, index + 2, Len(items))

\* items.splice(index, 0, item) of a 0-based index; an index past the end
\* appends
SpliceIn(items, index, item) ==
  IF index >= Len(items) THEN Append(items, item)
  ELSE SubSeq(items, 1, index) \o <<item>> \o SubSeq(items, index + 1, Len(items))

\* the item inserted at the destination before it is taken out at the source
ReorderInsertFirst(items, source, destination) ==
  SpliceOut(SpliceIn(items, destination, items[source + 1]), source)

\* the list onDragEnd builds for a drop with a destination
Reorder(items, source, destination) ==
  SpliceIn(SpliceOut(items, source), destination, items[source + 1])

\* onDragEnd(result) with a destination
OnDragEnd(source, destination) ==
  /\ source \in 0..(Len(pdfFiles) - 1)
  /\ destination \in 0..(Len(pdfFiles) - 1)
  /\ pdfFiles' = Reorder(pdfFiles, source, destination)
  /\ UNCHANGED <<merging, mergedPdf, mergeJob, nextId, parserVars, splitterVars,
                 protectVars, removerVars, organizerVars>>

\* onDragEnd(result) without a destination
OnDragEndNoDestination ==
  /\ Len(pdfFiles) >= 1
  /\ UNCHANGED vars

\* the pages copied from one file: pageIndices, or every page when empty
IndicesToCopy(pageIndices, n) ==
  IF Len(pageIndices) > 0 THEN pageIndices ELSE AllPages(n)

\* the pages of each file put before those already merged
RECURSIVE MergeLoopPrepends(_, _, _)
MergeLoopPrepends(files, i, mergedDoc) ==
  IF i > Len(files) THEN [error |-> null, doc |-> mergedDoc]
  ELSE LET parsed == parsePageSelection(files[i].pageSelection,
                                        Num(files[i].totalPages))
           indices == IndicesToCopy(parsed.pages, files[i].totalPages)
       IN IF parsed.error # null
            THEN [error |-> parsed.error, doc |-> <<>>]
            ELSE MergeLoopPrepends(files, i + 1,
                                   [k \in 1..Len(indices) |->
                                      <<files[i].id, indices[k]>>] \o mergedDoc)

\* a file whose selection does not parse is left out, the merge goes on
RECURSIVE MergeLoopSkipsInvalid(_, _, _)
MergeLoopSkipsInvalid(files, i, mergedDoc) ==
  IF i > Len(files) THEN [error |-> null, doc |-> mergedDoc]
  ELSE LET parsed == parsePageSelection(files[i].pageSelection,
                                        Num(files[i].totalPages))
           indices == IndicesToCopy(parsed.pages, files[i].totalPages)
       IN IF parsed.error # null
            THEN MergeLoopSkipsInvalid(files, i + 1, mergedDoc)
            ELSE MergeLoopSkipsInvalid(files, i + 1,
                                       mergedDoc \o [k \in 1..Len(indices) |->
                                                       <<files[i].id, indices[k]>>])

\* for (const pdfFile of pdfFiles) { ... } of mergePDFs: the error that ends
\* it, or the merged document
RECURSIVE MergeLoop(_, _, _)
MergeLoop(files, i, mergedDoc) ==
  IF i > Len(files) THEN [error |-> null, doc |-> mergedDoc]
  ELSE LET parsed == parsePageSelection(files[i].pageSelection,
                                        Num(files[i].totalPages))
           indices == IndicesToCopy(parsed.pages, files[i].totalPages)
       IN IF parsed.error # null
            THEN [error |-> parsed.error, doc |-> <<>>]
            ELSE MergeLoop(files, i + 1,
                           mergedDoc \o [k \in 1..Len(indices) |->
                                           <<files[i].id, indices[k]>>])

\* mergePDFs with fewer than 2 files
MergeTooFew ==
  /\ ~merging
  /\ Len(pdfFiles) < 2
  /\ UNCHANGED vars

\* mergePDFs is called: setMerging(true)
MergeStart ==
  /\ ~merging
  /\ Len(pdfFiles) >= 2
  /\ merging' = TRUE
  /\ mergeJob' = [running |-> TRUE,
                  files |-> [i \in 1..Len(pdfFiles) |-> pdfFiles[i].id],
                  error |-> MergeLoop(pdfFiles, 1, <<>>).error,
                  doc |-> MergeLoop(pdfFiles, 1, <<>>).doc]
  /\ UNCHANGED <<pdfFiles, mergedPdf, nextId, parserVars, splitterVars,
                 protectVars, removerVars, organizerVars>>

\* mergePDFs returns at a selection that does not parse and leaves merging
\* as it is
MergeRejectedStaysBusy ==
  /\ mergeJob.running
  /\ mergeJob.error # null
  /\ mergeJob' = NoJob
  /\ UNCHANGED <<pdfFiles, merging, mergedPdf, nextId, parserVars,
                 splitterVars, protectVars, removerVars, organizerVars>>

\* mergePDFs meets a selection that does not parse: setMerging(false), return
MergeRejected ==
  /\ mergeJob.running
  /\ mergeJob.error # null
  /\ merging' = FALSE
  /\ mergeJob' = NoJob
  /\ UNCHANGED <<pdfFiles, mergedPdf, nextId, parserVars, splitterVars,
                 protectVars, removerVars, organizerVars>>

\* mergePDFs ends: setMergedPdf(url), then finally setMerging(false)
MergeSucceeds ==
  /\ mergeJob.running
  /\ mergeJob.error = null
  /\ mergedPdf' = Pdf(mergeJob.doc)
  /\ merging' = FALSE
  /\ mergeJob' = NoJob
  /\ UNCHANGED <<pdfFiles, nextId, parserVars, splitterVars,
                 protectVars, removerVars, organizerVars>>

\* a library call of mergePDFs throws: catch, then finally setMerging(false)
MergeThrows ==
  /\ mergeJob.running
  /\ merging' = FALSE
  /\ mergeJob' = NoJob
  /\ UNCHANGED <<pdfFiles, mergedPdf, nextId, parserVars, splitterVars,
                 protectVars, removerVars, organizerVars>>

\* resetMerger; its button is rendered while the list holds a file
ResetMerger ==
  /\ Len(pdfFiles) > 0
  /\ pdfFiles' = <<>>
  /\ mergedPdf' = NoPdf
  /\ UNCHANGED <<merging, mergeJob, nextId, parserVars, splitterVars,
                 protectVars, removerVars, organizerVars>>

MergerInit ==
  /\ input = <<>>
  /\ totalPages = undefined
  /\ pc = "ready"
  /\ result = [pages |-> <<>>, error |-> null]
  /\ MergerIdle
  /\ SplitterIdle
  /\ ProtectIdle
  /\ RemoverIdle
  /\ OrganizerIdle

MergerNext ==
  \/ \E counts \in UNION {[1..k -> PageCounts] : k \in 1..MaxDrops} : OnDrop(counts)
  \/ OnDropNothing
  \/ \E id \in 1..MaxDrops : RemoveFile(id)
  \/ \E id \in 1..MaxDrops : \E value \in SelectionEdits :
       HandlePageSelectionChange(id, value)
  \/ \E source \in 0..(MaxDrops - 1) : \E destination \in 0..(MaxDrops - 1) :
       OnDragEnd(source, destination)
  \/ OnDragEndNoDestination
  \/ MergeTooFew
  \/ MergeStart
  \/ MergeRejected
  \/ MergeSucceeds
  \/ MergeThrows
  \/ ResetMerger

MergerSpec == MergerInit /\ [][MergerNext]_vars

(***************************************************************************)
(* The splitter (PDFSplitter.js).                                          *)
(*                                                                         *)
(* A part is [url, fileName, pageCount, pages]: pages are the page indices *)
(* copied into the document behind the object URL.  handleSplit is         *)
(* asynchronous: between its awaits it reads only the pdfBytes, pdfInfo    *)
(* and rangesInput of its closure and writes only its locals, so what it   *)
(* will do is fixed at the call; splitJob carries it until the call ends.  *)
(* No other handler creates an object URL, so the URLs the call creates    *)
(* are those free at the call.  The range field, the split button and the reset button are  *)
(* rendered only while pdfInfo is set (PDFSplitter.js:353), and pdfBytes   *)
(* and pdfInfo are set and cleared together, so the guard of handleSplit   *)
(* on a missing document (PDFSplitter.js:149) is never met from the page.  *)
(* One call of handleSplit is in flight at a time.  onDrop is taken as one *)
(* step, so that loading is false in every state and is left out.          *)
(***************************************************************************)
\* most lines typed in the range field
MaxLines == 3

\* the lines typed in the range field: a line of white space, single pages
\* and a range
RangeLines == {<<" ">>, <<"1">>, <<"2">>, <<"1", "-", "2">>}

\* the files dropped: two pages under a name with an extension, one page
\* under a name without extension, one page under an extension alone
SplitterFiles ==
  {[name |-> <<"a", ".", "p", "d", "f">>, pages |-> 2],
   [name |-> <<"a">>, pages |-> 1],
   [name |-> <<".", "p", "d", "f">>, pages |-> 1]}

\* the text of the range field with one more line typed under it
AppendLine(text, line) ==
  IF text = <<>> THEN line ELSE text \o <<"\n">> \o line

\* fileName.lastIndexOf('.'), counted from 1: 0 where JavaScript gives -1
LastIndexOf(s, c) ==
  IF \E k \in 1..Len(s) : s[k] = c
    THEN CHOOSE k \in 1..Len(s) :
           s[k] = c /\ \A m \in (k + 1)..Len(s) : s[m] # c
    ELSE 0

extractNameParts(fileName) ==
  LET lastDot == LastIndexOf(fileName, ".")
  IN IF lastDot = 0
       THEN [base |-> fileName, extension |-> <<>>]
       ELSE [base |-> SubSeq(fileName, 1, lastDot - 1),
             extension |-> SubSeq(fileName, lastDot, Len(fileName))]

\* a || b on strings: the empty string is falsy
OrElse(a, b) == IF a = <<>> THEN b ELSE a

\* '.pdf'
DotPdf == <<".", "p", "d", "f">>

\* 'document'
Document == <<"d", "o", "c", "u", "m", "e", "n", "t">>

\* '-part-'
PartInfix == <<"-", "p", "a", "r", "t", "-">>

\* the typed array of a document of n pages
Bytes(n) == [present |-> TRUE, pages |-> n]

\* the record onDrop stores in pdfInfo
NewInfo(name, pageCount) ==
  [present |-> TRUE,
   name |-> name,
   baseName |-> extractNameParts(name).base,
   extension |-> OrElse(extractNameParts(name).extension, DotPdf),
   totalPages |-> pageCount]

\* the ranges onDrop proposes: two halves, or the single page
DefaultRanges(pageCount) ==
  IF pageCount > 1
    THEN LET mid == (pageCount + 1) \div 2
         IN <<"1", "-">> \o NumToChars(mid) \o <<"\n">> \o NumToChars(mid + 1)
              \o <<"-">> \o NumToChars(pageCount)
    ELSE <<"1">>

\* the object URLs of a list of parts
Urls(results) == {results[i].url : i \in 1..Len(results)}

\* revokeResults(results), nothing revoked
RevokeResultsForgotten(results, urls) == urls

\* revokeResults(results): the URLs still live out of urls
RevokeResults(results, urls) == urls \ Urls(results)

\* rangesInput.split('\n')
RECURSIVE SplitLines(_)
SplitLines(s) ==
  IF \E k \in 1..Len(s) : s[k] = "\n"
    THEN LET k == CHOOSE j \in 1..Len(s) :
                    s[j] = "\n" /\ \A m \in 1..(j - 1) : s[m] # "\n"
         IN <<SubSeq(s, 1, k - 1)>> \o SplitLines(SubSeq(s, k + 1, Len(s)))
    ELSE <<s>>

\* rangesInput.split('\n').map((line) => line.trim()).filter(Boolean)
TrimmedLines(text) ==
  FilterBoolean([i \in 1..Len(SplitLines(text)) |-> Trim(SplitLines(text)[i])])

\* `${pdfInfo.baseName || 'document'}-part-${index + 1}${pdfInfo.extension || '.pdf'}`
PartName(info, index) ==
  OrElse(info.baseName, Document) \o PartInfix \o NumToChars(index + 1)
    \o OrElse(info.extension, DotPdf)

\* URL.createObjectURL(blob): a URL that is not in use
CreateObjectURL(used) ==
  CHOOSE u \in 1..(Cardinality(used) + 1) :
    u \notin used /\ \A v \in 1..(u - 1) : v \in used

\* pages.filter((page) => pageUsage.has(page))
Overlaps(pages, pageUsage) == SelectSeq(pages, LAMBDA page : page \in pageUsage)

\* the locals of handleSplit before its loop
EmptyLocals == [pageUsage |-> {}, pendingResults |-> <<>>, localErrors |-> <<>>]

\* the overlap error of a line
OverlapError(index, overlaps) ==
  [line |-> index + 1,
   message |-> "Range overlaps with previously defined pages (page "
                 \o NumToStr(overlaps[1] + 1) \o ")."]

\* the part of a line that is accepted
NewPart(index, info, pages, used) ==
  [url |-> CreateObjectURL(used),
   fileName |-> PartName(info, index),
   pageCount |-> Len(pages),
   pages |-> pages]

\* one turn of the loop, the pages of an overlapping line claimed
SplitLineClaimsOverlap(line, index, pdf, info, st, urls) ==
  LET parsed == parsePageSelection(line, Num(pdf.pages))
      overlaps == Overlaps(parsed.pages, st.pageUsage)
      claimed == st.pageUsage \cup {parsed.pages[i] : i \in 1..Len(parsed.pages)}
  IN IF parsed.error # null
       THEN [st EXCEPT !.localErrors =
               Append(@, [line |-> index + 1, message |-> parsed.error])]
     ELSE IF Len(overlaps) > 0
       THEN [st EXCEPT !.localErrors = Append(@, OverlapError(index, overlaps)),
                       !.pageUsage = claimed]
     ELSE [pageUsage |-> claimed,
           pendingResults |->
             Append(st.pendingResults,
                    NewPart(index, info, parsed.pages,
                            urls \cup Urls(st.pendingResults))),
           localErrors |-> st.localErrors]

\* one turn of the loop over trimmedLines: index counts from 0
SplitLine(line, index, pdf, info, st, urls) ==
  LET parsed == parsePageSelection(line, Num(pdf.pages))
      overlaps == Overlaps(parsed.pages, st.pageUsage)
  IN IF parsed.error # null
       THEN [st EXCEPT !.localErrors =
               Append(@, [line |-> index + 1, message |-> parsed.error])]
     ELSE IF Len(overlaps) > 0
       THEN [st EXCEPT !.localErrors = Append(@, OverlapError(index, overlaps))]
     ELSE [pageUsage |->
             st.pageUsage \cup {parsed.pages[i] : i \in 1..Len(parsed.pages)},
           pendingResults |->
             Append(st.pendingResults,
                    NewPart(index, info, parsed.pages,
                            urls \cup Urls(st.pendingResults))),
           localErrors |-> st.localErrors]

\* the loop, stopped at the first line that fails
RECURSIVE SplitLoopFirstErrorOnly(_, _, _, _, _, _)
SplitLoopFirstErrorOnly(lines, index, pdf, info, st, urls) ==
  IF index >= Len(lines) \/ Len(st.localErrors) > 0 THEN st
  ELSE SplitLoopFirstErrorOnly(lines, index + 1, pdf, info,
                 SplitLine(lines[index + 1], index, pdf, info, st, urls), urls)

\* for (let index = 0; index < trimmedLines.length; index += 1)
RECURSIVE SplitLoop(_, _, _, _, _, _)
SplitLoop(lines, index, pdf, info, st, urls) ==
  IF index >= Len(lines) THEN st
  ELSE SplitLoop(lines, index + 1, pdf, info,
                 SplitLine(lines[index + 1], index, pdf, info, st, urls), urls)

\* the locals of a call of handleSplit after its loop, the URLs in urls live
SplitOutcome(pdf, info, text, urls) ==
  SplitLoop(TrimmedLines(text), 0, pdf, info, EmptyLocals, urls)

\* onDrop of a PDF that loads: its name and its page count
SplitterOnDrop(name, pageCount) ==
  /\ rangeErrors' = <<>>
  /\ splitResults' = <<>>
  /\ objectUrls' = RevokeResults(splitResults, objectUrls)
  /\ pdfBytes' = Bytes(pageCount)
  /\ pdfInfo' = NewInfo(name, pageCount)
  /\ rangesInput' = DefaultRanges(pageCount)
  /\ UNCHANGED <<splitting, splitJob, parserVars, mergerVars,
                 protectVars, removerVars, organizerVars>>

\* onDrop of a PDF that does not load
SplitterOnDropFails ==
  /\ rangeErrors' = <<>>
  /\ splitResults' = <<>>
  /\ objectUrls' = RevokeResults(splitResults, objectUrls)
  /\ pdfBytes' = NoBytes
  /\ pdfInfo' = NoInfo
  /\ rangesInput' = <<>>
  /\ UNCHANGED <<splitting, splitJob, parserVars, mergerVars,
                 protectVars, removerVars, organizerVars>>

\* onDrop with no PDF among the files
SplitterOnDropNoPdf == UNCHANGED vars

\* the range field is edited: setRangesInput(event.target.value)
SetRangesInput(value) ==
  /\ pdfInfo.present
  /\ ~splitting
  /\ rangesInput' = value
  /\ UNCHANGED <<pdfBytes, pdfInfo, rangeErrors, splitResults, splitting,
                 splitJob, objectUrls, parserVars, mergerVars,
                 protectVars, removerVars, organizerVars>>

\* handleSplit with no line left after the blank ones are dropped
SplitNoLines ==
  /\ pdfInfo.present
  /\ pdfBytes.present
  /\ ~splitting
  /\ TrimmedLines(rangesInput) = <<>>
  /\ UNCHANGED vars

\* handleSplit is called: setRangeErrors([]), resetSplitResults(),
\* setSplitting(true)
SplitStart ==
  /\ pdfInfo.present
  /\ pdfBytes.present
  /\ ~splitting
  /\ ~splitJob.running
  /\ TrimmedLines(rangesInput) # <<>>
  /\ rangeErrors' = <<>>
  /\ splitResults' = <<>>
  /\ objectUrls' = RevokeResults(splitResults, objectUrls)
  /\ splitting' = TRUE
  /\ LET out == SplitOutcome(pdfBytes, pdfInfo, rangesInput,
                             RevokeResults(splitResults, objectUrls))
     IN splitJob' = [running |-> TRUE,
                     localErrors |-> out.localErrors,
                     pendingResults |-> out.pendingResults]
  /\ UNCHANGED <<pdfBytes, pdfInfo, rangesInput, parserVars, mergerVars,
                 protectVars, removerVars, organizerVars>>

\* handleSplit ends with lines in error: revokeResults(pendingResults),
\* setRangeErrors(localErrors), return, then finally setSplitting(false)
SplitRejected ==
  /\ splitJob.running
  /\ Len(splitJob.localErrors) > 0
  /\ objectUrls' =
       RevokeResults(splitJob.pendingResults,
                     objectUrls \cup Urls(splitJob.pendingResults))
  /\ rangeErrors' = splitJob.localErrors
  /\ splitting' = FALSE
  /\ splitJob' = NoSplitJob
  /\ UNCHANGED <<pdfBytes, pdfInfo, rangesInput, splitResults, parserVars,
                 mergerVars,
                 protectVars, removerVars, organizerVars>>

\* handleSplit ends with every line accepted: setSplitResults(pendingResults),
\* then finally setSplitting(false)
SplitSucceeds ==
  /\ splitJob.running
  /\ Len(splitJob.localErrors) = 0
  /\ Len(splitJob.pendingResults) > 0
  /\ splitResults' = splitJob.pendingResults
  /\ objectUrls' =
       RevokeResults(splitResults, objectUrls \cup Urls(splitJob.pendingResults))
  /\ splitting' = FALSE
  /\ splitJob' = NoSplitJob
  /\ UNCHANGED <<pdfBytes, pdfInfo, rangesInput, rangeErrors, parserVars,
                 mergerVars,
                 protectVars, removerVars, organizerVars>>

\* PDFDocument.load(pdfBytes) of handleSplit throws: catch, then finally
\* setSplitting(false)
SplitThrows ==
  /\ splitJob.running
  /\ splitting' = FALSE
  /\ splitJob' = NoSplitJob
  /\ UNCHANGED <<pdfBytes, pdfInfo, rangesInput, rangeErrors, splitResults,
                 objectUrls, parserVars, mergerVars,
                 protectVars, removerVars, organizerVars>>

\* resetTool
ResetTool ==
  /\ pdfInfo.present
  /\ splitting' = FALSE
  /\ pdfBytes' = NoBytes
  /\ pdfInfo' = NoInfo
  /\ rangesInput' = <<>>
  /\ rangeErrors' = <<>>
  /\ splitResults' = <<>>
  /\ objectUrls' = RevokeResults(splitResults, objectUrls)
  /\ UNCHANGED <<splitJob, parserVars, mergerVars,
                 protectVars, removerVars, organizerVars>>

SplitterInit ==
  /\ input = <<>>
  /\ totalPages = undefined
  /\ pc = "ready"
  /\ result = [pages |-> <<>>, error |-> null]
  /\ MergerIdle
  /\ SplitterIdle
  /\ ProtectIdle
  /\ RemoverIdle
  /\ OrganizerIdle

SplitterNext ==
  \/ \E file \in SplitterFiles : SplitterOnDrop(file.name, file.pages)
  \/ SplitterOnDropFails
  \/ SplitterOnDropNoPdf
  \/ \E line \in RangeLines :
       /\ Len(SplitLines(rangesInput)) < MaxLines
       /\ SetRangesInput(AppendLine(rangesInput, line))
  \/ SetRangesInput(<<>>)
  \/ SplitNoLines
  \/ SplitStart
  \/ SplitRejected
  \/ SplitSucceeds
  \/ SplitThrows
  \/ ResetTool

SplitterSpec == SplitterInit /\ [][SplitterNext]_vars

(***************************************************************************)
(* The password tool (PDFPasswordProtect.js).                              *)
(*                                                                         *)
(* A listed file is its id; an output is [id, userPassword, ownerPassword] *)
(* of the encrypted copy.  processPdfs is asynchronous: it reads only the  *)
(* pdfFiles and passwordOptions of its closure, so what it will store is   *)
(* fixed at the call.  Its button is disabled while processing is true or  *)
(* the list is empty (PDFPasswordProtect.js:324), so that its guard on an  *)
(* empty list is never met from the page; the reset button is disabled     *)
(* while processing is true (PDFPasswordProtect.js:344).                   *)
(***************************************************************************)
\* most files dropped on the password tool in one run
MaxProtectFiles == 2

\* the texts typed in the password fields
Passwords == {"", "a", "b"}

\* showNotification(message, type)
Notification(message, type) == [message |-> message, type |-> type]

\* onDrop with n PDF files among the files dropped
ProtectOnDrop(n) ==
  /\ n >= 1
  /\ protectNextId + n - 1 <= MaxProtectFiles
  /\ protectFiles' = protectFiles \o [i \in 1..n |-> protectNextId + i - 1]
  /\ protectNextId' = protectNextId + n
  /\ protectNotification'
       = Notification("Added " \o NumToStr(n) \o " PDF file(s)", "success")
  /\ UNCHANGED <<passwordOptions, protectProcessing, processedFiles, protectJob,
                 parserVars, mergerVars, splitterVars, removerVars, organizerVars>>

\* onDrop with no PDF among the files dropped
ProtectOnDropNoPdf ==
  /\ protectNotification' = Notification("Please select only PDF files", "error")
  /\ UNCHANGED <<protectFiles, passwordOptions, protectProcessing, processedFiles,
                 protectJob, protectNextId,
                 parserVars, mergerVars, splitterVars, removerVars, organizerVars>>

\* removeFile(id) of a listed file
ProtectRemoveFile(id) ==
  /\ \E i \in 1..Len(protectFiles) : protectFiles[i] = id
  /\ protectFiles' = SelectSeq(protectFiles, LAMBDA pdf : pdf # id)
  /\ protectNotification' = Notification("File removed", "info")
  /\ UNCHANGED <<passwordOptions, protectProcessing, processedFiles, protectJob,
                 protectNextId,
                 parserVars, mergerVars, splitterVars, removerVars, organizerVars>>

\* resetAll
ResetAll ==
  /\ ~protectProcessing
  /\ processedFiles' = <<>>
  /\ protectFiles' = <<>>
  /\ passwordOptions' = defaultPassword
  /\ protectNotification' = Notification("Reset complete", "info")
  /\ UNCHANGED <<protectProcessing, protectJob, protectNextId,
                 parserVars, mergerVars, splitterVars, removerVars, organizerVars>>

\* updatePassword(patch), the patch naming one field
UpdatePassword(field, value) ==
  /\ passwordOptions' = [passwordOptions EXCEPT ![field] = value]
  /\ UNCHANGED <<protectFiles, protectProcessing, processedFiles,
                 protectNotification, protectJob, protectNextId,
                 parserVars, mergerVars, splitterVars, removerVars, organizerVars>>

\* passwordMismatch: false while either field is empty
passwordMismatch(options) ==
  IF options.user = "" \/ options.confirm = "" THEN FALSE
  ELSE options.user # options.confirm

\* the outputs of processPdfs: one for each listed file, in list order
Outputs(files, options) ==
  [i \in 1..Len(files) |->
     [id |-> files[i],
      userPassword |-> options.user,
      ownerPassword |-> IF options.owner = "" THEN options.user ELSE options.owner]]

\* processPdfs with no user password
ProcessNoPassword ==
  /\ ~protectProcessing
  /\ Len(protectFiles) # 0
  /\ passwordOptions.user = ""
  /\ protectNotification' = Notification("User password is required", "error")
  /\ UNCHANGED <<protectFiles, passwordOptions, protectProcessing, processedFiles,
                 protectJob, protectNextId,
                 parserVars, mergerVars, splitterVars, removerVars, organizerVars>>

\* processPdfs with a confirmation that does not match
ProcessMismatch ==
  /\ ~protectProcessing
  /\ Len(protectFiles) # 0
  /\ passwordOptions.user # ""
  /\ passwordMismatch(passwordOptions)
  /\ protectNotification'
       = Notification("Password confirmation does not match", "error")
  /\ UNCHANGED <<protectFiles, passwordOptions, protectProcessing, processedFiles,
                 protectJob, protectNextId,
                 parserVars, mergerVars, splitterVars, removerVars, organizerVars>>

\* processPdfs passes its guards: setProcessing(true), setProcessedFiles([])
ProcessStart ==
  /\ ~protectProcessing
  /\ Len(protectFiles) # 0
  /\ passwordOptions.user # ""
  /\ ~passwordMismatch(passwordOptions)
  /\ protectProcessing' = TRUE
  /\ processedFiles' = <<>>
  /\ protectJob' = [running |-> TRUE,
                    outputs |-> Outputs(protectFiles, passwordOptions)]
  /\ UNCHANGED <<protectFiles, passwordOptions, protectNotification, protectNextId,
                 parserVars, mergerVars, splitterVars, removerVars, organizerVars>>

\* processPdfs ends: setProcessedFiles(outputs), then finally
\* setProcessing(false)
ProcessSucceeds ==
  /\ protectJob.running
  /\ processedFiles' = protectJob.outputs
  /\ protectNotification'
       = Notification("Protected " \o NumToStr(Len(protectJob.outputs))
                        \o " PDF file(s) successfully", "success")
  /\ protectProcessing' = FALSE
  /\ protectJob' = NoProtectJob
  /\ UNCHANGED <<protectFiles, passwordOptions, protectNextId,
                 parserVars, mergerVars, splitterVars, removerVars, organizerVars>>

\* a library call of processPdfs throws: catch, then finally
\* setProcessing(false)
ProcessThrows ==
  /\ protectJob.running
  /\ protectNotification'
       = Notification("Error protecting PDFs. Please try again.", "error")
  /\ protectProcessing' = FALSE
  /\ protectJob' = NoProtectJob
  /\ UNCHANGED <<protectFiles, passwordOptions, processedFiles, protectNextId,
                 parserVars, mergerVars, splitterVars, removerVars, organizerVars>>

\* setTimeout(() => setNotification(null), 3000)
NotificationExpires ==
  /\ protectNotification # NoNotification
  /\ protectNotification' = NoNotification
  /\ UNCHANGED <<protectFiles, passwordOptions, protectProcessing, processedFiles,
                 protectJob, protectNextId,
                 parserVars, mergerVars, splitterVars, removerVars, organizerVars>>

ProtectInit ==
  /\ input = <<>>
  /\ totalPages = undefined
  /\ pc = "ready"
  /\ result = [pages |-> <<>>, error |-> null]
  /\ MergerIdle
  /\ SplitterIdle
  /\ ProtectIdle
  /\ RemoverIdle
  /\ OrganizerIdle

ProtectNext ==
  \/ \E n \in 1..MaxProtectFiles : ProtectOnDrop(n)
  \/ ProtectOnDropNoPdf
  \/ \E id \in 1..MaxProtectFiles : ProtectRemoveFile(id)
  \/ ResetAll
  \/ \E field \in {"user", "confirm", "owner"} : \E value \in Passwords :
       UpdatePassword(field, value)
  \/ ProcessNoPassword
  \/ ProcessMismatch
  \/ ProcessStart
  \/ ProcessSucceeds
  \/ ProcessThrows
  \/ NotificationExpires

ProtectSpec == ProtectInit /\ [][ProtectNext]_vars

(***************************************************************************)
(* The page remover (PDFPageRemover.js).  One PDF is dropped; its pages    *)
(* are listed, each with a mark; handleRemoveSelected writes a document    *)
(* without the marked pages and loads it in place of the one it read.      *)
(* handleRemoveSelected is asynchronous and reads pdfBytes, pdfInfo and    *)
(* pages of its closure, so what it will store is fixed at the call.  Its  *)
(* button is disabled while processing is true or no page is marked        *)
(* (PDFPageRemover.js:430), so its guard on an empty selection is never    *)
(* met from the page; the page marks and the reset button are never        *)
(* disabled, and the drop zone takes a file at any time.                   *)
(***************************************************************************)
\* most pages of a file dropped on the page remover
MaxRemoverPages == 3

\* the files dropped on the page remover: a name with an extension and a
\* name without one, with every page count
RemoverFiles ==
  {[name |-> name, pages |-> n] :
     name \in {<<"a", ".", "p", "d", "f">>, <<"a">>}, n \in 1..MaxRemoverPages}

\* '-edited'
EditedSuffix == <<"-", "e", "d", "i", "t", "e", "d">>

\* fileName.endsWith('.pdf')
EndsWithPdf(fileName) ==
  /\ Len(fileName) >= Len(DotPdf)
  /\ SubSeq(fileName, Len(fileName) - Len(DotPdf) + 1, Len(fileName)) = DotPdf

\* the payload updateDownloadPayload(bytes, fileName) stores
DownloadPayload(bytes, fileName) ==
  [present |-> TRUE,
   doc |-> bytes,
   fileName |-> IF EndsWithPdf(fileName) THEN fileName ELSE fileName \o DotPdf]

\* the entries generateThumbnails returns for a document of n pages
PageEntries(n) ==
  [i \in 1..n |-> [pageNumber |-> i, selectedForRemoval |-> FALSE]]

\* the typed array of the file dropped: its pages, each under its own number
FileBytes(n) == [present |-> TRUE, doc |-> [i \in 1..n |-> i]]

\* onDrop of a PDF that loads
RemoverOnDrop(name, pageCount) ==
  /\ removerProcessing' = FALSE
  /\ removerPdfInfo' = NewInfo(name, pageCount)
  /\ removerPages' = PageEntries(pageCount)
  /\ removerPdfBytes' = FileBytes(pageCount)
  /\ removerDownload' = DownloadPayload(FileBytes(pageCount).doc, name)
  /\ UNCHANGED <<removerJob, parserVars, mergerVars, splitterVars,
                 protectVars, organizerVars>>

\* onDrop of a PDF that does not load
RemoverOnDropFails ==
  /\ removerProcessing' = FALSE
  /\ removerPdfInfo' = NoInfo
  /\ removerPages' = <<>>
  /\ removerPdfBytes' = NoDocument
  /\ UNCHANGED <<removerDownload, removerJob, parserVars, mergerVars,
                 splitterVars, protectVars, organizerVars>>

\* onDrop with no PDF among the files dropped
RemoverOnDropNoPdf == UNCHANGED vars

\* hasPdfLoaded: the page grid and the buttons are rendered
RemoverHasPdfLoaded == removerPdfInfo.present /\ Len(removerPages) > 0

\* togglePageSelection(pageNumber)
TogglePageSelection(pageNumber) ==
  /\ RemoverHasPdfLoaded
  /\ pageNumber \in 1..Len(removerPages)
  /\ removerPages'
       = [i \in 1..Len(removerPages) |->
            IF removerPages[i].pageNumber = pageNumber
              THEN [removerPages[i] EXCEPT
                      !.selectedForRemoval = ~removerPages[i].selectedForRemoval]
              ELSE removerPages[i]]
  /\ UNCHANGED <<removerPdfBytes, removerPdfInfo, removerProcessing,
                 removerDownload, removerJob, parserVars, mergerVars,
                 splitterVars, protectVars, organizerVars>>

\* selectedCount
RemoverSelectedCount(pages) ==
  Len(SelectSeq(pages, LAMBDA page : page.selectedForRemoval))

\* pagesToKeep
PagesToKeep(pages) == SelectSeq(pages, LAMBDA page : ~page.selectedForRemoval)

\* what the button and the first two guards of handleRemoveSelected ask for
RemoveClickable ==
  /\ RemoverHasPdfLoaded
  /\ ~removerProcessing
  /\ removerPdfBytes.present
  /\ RemoverSelectedCount(removerPages) > 0

\* handleRemoveSelected with every page marked: a notification only
RemoveAllMarked ==
  /\ RemoveClickable
  /\ Len(PagesToKeep(removerPages)) = 0
  /\ UNCHANGED vars

\* the document newDoc.save() gives: the pages of bytes at indicesToKeep
KeptDocument(bytes, pagesToKeep) ==
  [i \in 1..Len(pagesToKeep) |-> bytes[pagesToKeep[i].pageNumber]]

\* handleRemoveSelected up to its first await, with the guard on
\* pagesToKeep left out
RemoveStartUnguarded ==
  /\ RemoveClickable
  /\ ~removerJob.running
  /\ removerProcessing' = TRUE
  /\ removerJob'
       = [running |-> TRUE,
          doc |-> KeptDocument(removerPdfBytes.doc, PagesToKeep(removerPages)),
          fileName |-> removerPdfInfo.baseName \o EditedSuffix
                         \o removerPdfInfo.extension]
  /\ UNCHANGED <<removerPdfBytes, removerPdfInfo, removerPages,
                 removerDownload, parserVars, mergerVars, splitterVars,
                 protectVars, organizerVars>>

\* handleRemoveSelected up to its first await
RemoveStart ==
  /\ RemoveClickable
  /\ Len(PagesToKeep(removerPages)) # 0
  /\ ~removerJob.running
  /\ removerProcessing' = TRUE
  /\ removerJob'
       = [running |-> TRUE,
          doc |-> KeptDocument(removerPdfBytes.doc, PagesToKeep(removerPages)),
          fileName |-> removerPdfInfo.baseName \o EditedSuffix
                         \o removerPdfInfo.extension]
  /\ UNCHANGED <<removerPdfBytes, removerPdfInfo, removerPages,
                 removerDownload, parserVars, mergerVars, splitterVars,
                 protectVars, organizerVars>>

\* handleRemoveSelected after its awaits: the new document is stored
RemoveSucceeds ==
  /\ removerJob.running
  /\ removerPdfBytes' = [present |-> TRUE, doc |-> removerJob.doc]
  /\ removerPages' = PageEntries(Len(removerJob.doc))
  /\ removerPdfInfo'
       = IF removerPdfInfo.present
           THEN [removerPdfInfo EXCEPT !.totalPages = Len(removerJob.doc)]
           ELSE removerPdfInfo
  /\ removerDownload' = DownloadPayload(removerJob.doc, removerJob.fileName)
  /\ removerProcessing' = FALSE
  /\ removerJob' = NoRemoverJob
  /\ UNCHANGED <<parserVars, mergerVars, splitterVars, protectVars,
                 organizerVars>>

\* handleRemoveSelected when a call of the library throws
RemoveThrows ==
  /\ removerJob.running
  /\ removerProcessing' = FALSE
  /\ removerJob' = NoRemoverJob
  /\ UNCHANGED <<removerPdfBytes, removerPdfInfo, removerPages,
                 removerDownload, parserVars, mergerVars, splitterVars,
                 protectVars, organizerVars>>

\* resetTool of the page remover
RemoverResetTool ==
  /\ RemoverHasPdfLoaded
  /\ removerPdfInfo' = NoInfo
  /\ removerPages' = <<>>
  /\ removerPdfBytes' = NoDocument
  /\ removerProcessing' = FALSE
  /\ removerDownload' = NoDownload
  /\ UNCHANGED <<removerJob, parserVars, mergerVars, splitterVars,
                 protectVars, organizerVars>>

\* no tool has been used
ToolsInit ==
  /\ input = <<>>
  /\ totalPages = undefined
  /\ pc = "ready"
  /\ result = [pages |-> <<>>, error |-> null]
  /\ MergerIdle
  /\ SplitterIdle
  /\ ProtectIdle
  /\ RemoverIdle
  /\ OrganizerIdle

RemoverNext ==
  \/ \E file \in RemoverFiles : RemoverOnDrop(file.name, file.pages)
  \/ RemoverOnDropFails
  \/ RemoverOnDropNoPdf
  \/ \E pageNumber \in 1..MaxRemoverPages : TogglePageSelection(pageNumber)
  \/ RemoveAllMarked
  \/ RemoveStart
  \/ RemoveSucceeds
  \/ RemoveThrows
  \/ RemoverResetTool

(***************************************************************************)
(* The page organizer (PDFPageOrganizer.js).  One PDF is dropped; its      *)
(* pages are listed, each under an id, with the page of the file it shows, *)
(* a rotation and a mark; the list is reordered, rotated, duplicated and   *)
(* shortened, and handleExport writes the pages of the list, or the marked *)
(* ones, to a download.  A copy of the list as it was loaded is kept in    *)
(* originalPagesRef.  The label and the thumbnail of a page follow from    *)
(* the page it shows and are left out.  An id is made of the clock and a   *)
(* random number, so that it differs from every id in use: the ids of the  *)
(* pages loaded are their page numbers, the id of a duplicate is the       *)
(* lowest number no page of the list or of the stored original carries.    *)
(* A download payload is its file name: the url, and the bytes behind it,  *)
(* are not followed.  Every button but the reset button is disabled while  *)
(* processing is true, and so is the drop zone (PDFPageOrganizer.js:224).  *)
(***************************************************************************)
\* most pages the list of the organizer holds in one run
MaxOrganizerPages == 2

\* the files dropped on the organizer: one page or two, under one name
OrganizerFiles ==
  {[name |-> <<"a", ".", "p", "d", "f">>, pages |-> n] : n \in {1, 2}}

\* direction of rotatePage
Directions == {"left", "right"}

\* the payload updateDownloadPayload(bytes, fileName) stores
ExportPayload(fileName) ==
  [present |-> TRUE,
   fileName |-> IF EndsWithPdf(fileName) THEN fileName ELSE fileName \o DotPdf]

\* preparedPages
PreparedPages(n) ==
  [i \in 1..n |->
     [id |-> i, sourceIndex |-> i - 1, rotation |-> 0, selected |-> FALSE]]

\* the ids of a list of pages
Ids(pages) == {pages[i].id : i \in 1..Len(pages)}

\* page-<sourceIndex>-<Date.now()>-<Math.random()>
FreshId(pages, original) ==
  CHOOSE id \in 1..(Len(pages) + Len(original) + 1) :
    /\ id \notin Ids(pages) \cup Ids(original)
    /\ \A lower \in 1..(id - 1) : lower \in Ids(pages) \cup Ids(original)

\* hasPdfLoaded: the page grid and the buttons are rendered
OrganizerHasPdfLoaded == organizerPdfInfo.present /\ Len(organizerPages) > 0

\* the buttons of the page grid can be clicked
OrganizerEditable == OrganizerHasPdfLoaded /\ ~organizerProcessing

\* onDrop of a PDF that loads
OrganizerOnDrop(name, pageCount) ==
  /\ ~organizerProcessing
  /\ organizerProcessing' = FALSE
  /\ organizerPages' = PreparedPages(pageCount)
  /\ originalPagesRef' = PreparedPages(pageCount)
  /\ organizerPdfBytes' = FileBytes(pageCount)
  /\ organizerPdfInfo' = NewInfo(name, pageCount)
  /\ UNCHANGED <<organizerDownload, organizerJob, parserVars, mergerVars,
                 splitterVars, protectVars, removerVars>>

\* onDrop of a PDF that does not load
OrganizerOnDropFails ==
  /\ ~organizerProcessing
  /\ organizerProcessing' = FALSE
  /\ organizerPdfInfo' = NoInfo
  /\ organizerPdfBytes' = NoDocument
  /\ organizerPages' = <<>>
  /\ originalPagesRef' = <<>>
  /\ UNCHANGED <<organizerDownload, organizerJob, parserVars, mergerVars,
                 splitterVars, protectVars, removerVars>>

\* onDrop with no PDF among the files dropped
OrganizerOnDropNoPdf ==
  /\ ~organizerProcessing
  /\ UNCHANGED vars

\* setPages(next): the handlers of the page grid change the list alone
SetPages(next) ==
  /\ organizerPages' = next
  /\ UNCHANGED <<organizerPdfBytes, organizerPdfInfo, originalPagesRef,
                 organizerProcessing, organizerDownload, organizerJob,
                 parserVars, mergerVars, splitterVars, protectVars,
                 removerVars>>

\* onDragEnd with a destination
OrganizerOnDragEnd(source, destination) ==
  /\ OrganizerEditable
  /\ source \in 0..(Len(organizerPages) - 1)
  /\ destination \in 0..(Len(organizerPages) - 1)
  /\ SetPages(Reorder(organizerPages, source, destination))

\* onDragEnd of a drop outside the list
OrganizerOnDragEndNoDestination ==
  /\ OrganizerEditable
  /\ UNCHANGED vars

\* (page.rotation + delta + 360) % 360
NewRotation(rotation, direction) ==
  (rotation + (IF direction = "left" THEN -90 ELSE 90) + 360) % 360

\* rotatePage(id, direction)
RotatePage(id, direction) ==
  /\ OrganizerEditable
  /\ id \in Ids(organizerPages)
  /\ SetPages([i \in 1..Len(organizerPages) |->
                 IF organizerPages[i].id # id
                   THEN organizerPages[i]
                   ELSE [organizerPages[i] EXCEPT
                           !.rotation = NewRotation(@, direction)]])

\* previous.findIndex((page) => page.id === id) of an id of the list
FindIndex(pages, id) == (CHOOSE i \in 1..Len(pages) : pages[i].id = id) - 1

\* duplicatePage(id)
DuplicatePage(id) ==
  /\ OrganizerEditable
  /\ id \in Ids(organizerPages)
  /\ Len(organizerPages) < MaxOrganizerPages
  /\ LET index == FindIndex(organizerPages, id)
         duplicate == [organizerPages[index + 1] EXCEPT
                         !.id = FreshId(organizerPages, originalPagesRef),
                         !.selected = FALSE]
     IN SetPages(SpliceIn(organizerPages, index + 1, duplicate))

\* removePage(id): the button is disabled on a list of one page once that
\* list is rendered, the handler looks at the list it is given
RemovePage(id) ==
  /\ OrganizerEditable
  /\ id \in Ids(organizerPages)
  /\ SetPages(IF Len(organizerPages) <= 1
                THEN organizerPages
                ELSE SelectSeq(organizerPages, LAMBDA page : page.id # id))

\* toggleSelection(id)
ToggleSelection(id) ==
  /\ OrganizerEditable
  /\ id \in Ids(organizerPages)
  /\ SetPages([i \in 1..Len(organizerPages) |->
                 IF organizerPages[i].id = id
                   THEN [organizerPages[i] EXCEPT !.selected = ~@]
                   ELSE organizerPages[i]])

\* selectedCount
OrganizerSelectedCount(pages) ==
  Len(SelectSeq(pages, LAMBDA page : page.selected))

\* selectAll
SelectAll ==
  /\ OrganizerEditable
  /\ SetPages([i \in 1..Len(organizerPages) |->
                 [organizerPages[i] EXCEPT !.selected = TRUE]])

\* clearSelection
ClearSelection ==
  /\ OrganizerEditable
  /\ OrganizerSelectedCount(organizerPages) # 0
  /\ SetPages([i \in 1..Len(organizerPages) |->
                 [organizerPages[i] EXCEPT !.selected = FALSE]])

\* restoreOriginalArrangement with the rotations of the list kept
RestoreKeepsRotation ==
  /\ OrganizerEditable
  /\ SetPages(IF Len(originalPagesRef) = 0
                THEN organizerPages
                ELSE [i \in 1..Len(originalPagesRef) |->
                        [originalPagesRef[i] EXCEPT
                           !.rotation =
                             IF i <= Len(organizerPages)
                               THEN organizerPages[i].rotation ELSE @]])

\* restoreOriginalArrangement
RestoreOriginalArrangement ==
  /\ OrganizerEditable
  /\ SetPages(IF Len(originalPagesRef) = 0
                THEN organizerPages
                ELSE originalPagesRef)

\* targetPages
TargetPages(pages, selectionOnly) ==
  IF selectionOnly THEN SelectSeq(pages, LAMBDA page : page.selected) ELSE pages

\* 'organized'
Organized == <<"o", "r", "g", "a", "n", "i", "z", "e", "d">>

\* 'selection'
Selection == <<"s", "e", "l", "e", "c", "t", "i", "o", "n">>

\* `${pdfInfo.baseName || 'document'}-${suffix}${pdfInfo.extension || '.pdf'}`
ExportName(info, selectionOnly) ==
  OrElse(info.baseName, Document) \o <<"-">>
    \o (IF selectionOnly THEN Selection ELSE Organized)
    \o OrElse(info.extension, DotPdf)

\* handleExport({ selectionOnly }) up to its first await; the button of the
\* marked pages is disabled while no page is marked
ExportStart(selectionOnly) ==
  /\ OrganizerEditable
  /\ organizerPdfBytes.present
  /\ Len(TargetPages(organizerPages, selectionOnly)) # 0
  /\ ~organizerJob.running
  /\ organizerProcessing' = TRUE
  /\ organizerJob'
       = [running |-> TRUE,
          fileName |-> ExportName(organizerPdfInfo, selectionOnly)]
  /\ UNCHANGED <<organizerPdfBytes, organizerPdfInfo, organizerPages,
                 originalPagesRef, organizerDownload, parserVars, mergerVars,
                 splitterVars, protectVars, removerVars>>

\* handleExport after its awaits: the export is stored and downloaded
ExportSucceeds ==
  /\ organizerJob.running
  /\ organizerDownload' = ExportPayload(organizerJob.fileName)
  /\ organizerProcessing' = FALSE
  /\ organizerJob' = NoOrganizerJob
  /\ UNCHANGED <<organizerPdfBytes, organizerPdfInfo, organizerPages,
                 originalPagesRef, parserVars, mergerVars, splitterVars,
                 protectVars, removerVars>>

\* handleExport when a call of the library throws
ExportThrows ==
  /\ organizerJob.running
  /\ organizerProcessing' = FALSE
  /\ organizerJob' = NoOrganizerJob
  /\ UNCHANGED <<organizerPdfBytes, organizerPdfInfo, organizerPages,
                 originalPagesRef, organizerDownload, parserVars, mergerVars,
                 splitterVars, protectVars, removerVars>>

\* resetTool of the page organizer
OrganizerResetTool ==
  /\ OrganizerHasPdfLoaded
  /\ organizerProcessing' = FALSE
  /\ organizerPdfInfo' = NoInfo
  /\ organizerPdfBytes' = NoDocument
  /\ organizerPages' = <<>>
  /\ originalPagesRef' = <<>>
  /\ organizerDownload' = NoExport
  /\ UNCHANGED <<organizerJob, parserVars, mergerVars, splitterVars,
                 protectVars, removerVars>>

\* the ids a page of the list can carry
OrganizerIds == 1..(2 * MaxOrganizerPages)

OrganizerNext ==
  \/ \E file \in OrganizerFiles : OrganizerOnDrop(file.name, file.pages)
  \/ OrganizerOnDropFails
  \/ OrganizerOnDropNoPdf
  \/ \E source, destination \in 0..(MaxOrganizerPages - 1) :
       OrganizerOnDragEnd(source, destination)
  \/ OrganizerOnDragEndNoDestination
  \/ \E id \in OrganizerIds, direction \in Directions : RotatePage(id, direction)
  \/ \E id \in OrganizerIds : DuplicatePage(id)
  \/ \E id \in OrganizerIds : RemovePage(id)
  \/ \E id \in OrganizerIds : ToggleSelection(id)
  \/ SelectAll
  \/ ClearSelection
  \/ RestoreOriginalArrangement
  \/ \E selectionOnly \in BOOLEAN : ExportStart(selectionOnly)
  \/ ExportSucceeds
  \/ ExportThrows
  \/ OrganizerResetTool

OrganizerSpec == ToolsInit /\ [][OrganizerNext]_vars

(***************************************************************************)
(* A run of one of the two page tools.  A component keeps its own state    *)
(* and the tools share none, so a run is a run of the page remover with    *)
(* the organizer untouched, or of the organizer with the page remover      *)
(* untouched.                                                              *)
(***************************************************************************)
PageToolsNext ==
  \/ OrganizerIdle /\ RemoverNext
  \/ RemoverIdle /\ OrganizerNext

PageToolsSpec == ToolsInit /\ [][PageToolsNext]_vars

(***************************************************************************)
(* A run of one of the three tools with a reset: the merger, the splitter  *)
(* or the page remover, the other two untouched.                           *)
(***************************************************************************)
ResetToolsNext ==
  \/ SplitterIdle /\ RemoverIdle /\ MergerNext
  \/ MergerIdle /\ RemoverIdle /\ SplitterNext
  \/ MergerIdle /\ SplitterIdle /\ RemoverNext

ResetToolsSpec == ToolsInit /\ [][ResetToolsNext]_vars

(***************************************************************************)
(* A run of one of the four tools with a busy flag: the merger (merging),  *)
(* the splitter (splitting), the page remover and the page organizer       *)
(* (processing), the other three untouched.  The handlers are those of the *)
(* four tools, called on fewer inputs: files of one page (two for the      *)
(* remover), the selection "0", the range lines 1 and 2, the first page of *)
(* the organizer; they reach every end of a call: its last statement, the  *)
(* return at a selection or a range that is refused, catch and finally.    *)
(* A call in flight is a chain of promises of the library and of the       *)
(* browser: each of them settles, so the call resumes and comes to its     *)
(* end.                                                                    *)
(***************************************************************************)
BusyMergerNext ==
  \/ OnDrop(<<1, 1>>)
  \/ OnDropNothing
  \/ \E id \in 1..MaxDrops : RemoveFile(id)
  \/ \E id \in 1..MaxDrops : HandlePageSelectionChange(id, <<"0">>)
  \/ OnDragEnd(0, 1)
  \/ OnDragEndNoDestination
  \/ MergeTooFew
  \/ MergeStart
  \/ MergeRejected
  \/ MergeSucceeds
  \/ MergeThrows
  \/ ResetMerger

BusySplitterNext ==
  \/ SplitterOnDrop(<<"a">>, 1)
  \/ SplitterOnDropFails
  \/ SplitterOnDropNoPdf
  \/ \E line \in {<<"1">>, <<"2">>} :
       /\ Len(SplitLines(rangesInput)) < MaxLines
       /\ SetRangesInput(AppendLine(rangesInput, line))
  \/ SetRangesInput(<<>>)
  \/ SplitNoLines
  \/ SplitStart
  \/ SplitRejected
  \/ SplitSucceeds
  \/ SplitThrows
  \/ ResetTool

BusyRemoverNext ==
  \/ RemoverOnDrop(<<"a">>, 2)
  \/ RemoverOnDropFails
  \/ RemoverOnDropNoPdf
  \/ \E pageNumber \in 1..MaxRemoverPages : TogglePageSelection(pageNumber)
  \/ RemoveAllMarked
  \/ RemoveStart
  \/ RemoveSucceeds
  \/ RemoveThrows
  \/ RemoverResetTool

BusyOrganizerNext ==
  \/ OrganizerOnDrop(<<"a">>, 1)
  \/ OrganizerOnDropFails
  \/ OrganizerOnDropNoPdf
  \/ OrganizerOnDragEnd(0, 1)
  \/ OrganizerOnDragEndNoDestination
  \/ RotatePage(1, "right")
  \/ DuplicatePage(1)
  \/ RemovePage(1)
  \/ ToggleSelection(1)
  \/ SelectAll
  \/ ClearSelection
  \/ RestoreOriginalArrangement
  \/ \E selectionOnly \in BOOLEAN : ExportStart(selectionOnly)
  \/ ExportSucceeds
  \/ ExportThrows
  \/ OrganizerResetTool

BusyNext ==
  \/ SplitterIdle /\ RemoverIdle /\ OrganizerIdle /\ BusyMergerNext
  \/ MergerIdle /\ RemoverIdle /\ OrganizerIdle /\ BusySplitterNext
  \/ MergerIdle /\ SplitterIdle /\ OrganizerIdle /\ BusyRemoverNext
  \/ MergerIdle /\ SplitterIdle /\ RemoverIdle /\ BusyOrganizerNext

\* the call in flight comes to its end
BusyFairness ==
  /\ WF_vars(MergeRejected \/ MergeSucceeds \/ MergeThrows)
  /\ WF_vars(SplitRejected \/ SplitSucceeds \/ SplitThrows)
  /\ WF_vars(RemoveSucceeds \/ RemoveThrows)
  /\ WF_vars(ExportSucceeds \/ ExportThrows)

BusySpec == ToolsInit /\ [][BusyNext]_vars /\ BusyFairness

(***************************************************************************)
(* A caller: one call of the parser on one input.                          *)
(***************************************************************************)
Init ==
  /\ input \in Inputs
  /\ totalPages \in TotalPagesValues
  /\ pc = "ready"
  /\ result = [pages |-> <<>>, error |-> null]
  /\ MergerIdle
  /\ SplitterIdle
  /\ ProtectIdle
  /\ RemoverIdle
  /\ OrganizerIdle

\* const { pages, error } = parsePageSelection(input, totalPages)
Call ==
  /\ pc = "ready"
  /\ result' = parsePageSelection(input, totalPages)
  /\ pc' = "returned"
  /\ UNCHANGED <<input, totalPages, mergerVars, splitterVars,
                 protectVars, removerVars, organizerVars>>

Next == Call

Spec == Init /\ [][Next]_vars

(***************************************************************************)
(* Vocabulary of the properties, defined without the parser's operators.   *)
(***************************************************************************)
Returned == pc = "returned"

\* the page count of a call that reaches the segment loop
N == totalPages.value

IsBlank(s) == \A i \in 1..Len(s) : s[i] \in Whitespace

\* "*" with whitespace around it
IsStar(s) ==
  \E k \in 1..Len(s) :
    s[k] = "*" /\ \A i \in (1..Len(s)) \ {k} : s[i] \in Whitespace

IsUnsigned(s) == Len(s) >= 1 /\ \A i \in 1..Len(s) : s[i] \in Digits

RECURSIVE Pow10(_)
Pow10(k) == IF k = 0 THEN 1 ELSE 10 * Pow10(k - 1)

\* the number a string of digits denotes
RECURSIVE ValueOf(_)
ValueOf(s) ==
  IF s = <<>> THEN 0
  ELSE DigitValue(Head(s)) * Pow10(Len(s) - 1) + ValueOf(Tail(s))

\* positions of a dash with an unsigned integer on either side
DashAt(s) ==
  {k \in 2..(Len(s) - 1) :
     /\ s[k] = "-"
     /\ IsUnsigned(SubSeq(s, 1, k - 1))
     /\ IsUnsigned(SubSeq(s, k + 1, Len(s)))}

IsRangeForm(s) == DashAt(s) # {}

RangeStart(s) == ValueOf(SubSeq(s, 1, (CHOOSE k \in DashAt(s) : TRUE) - 1))

RangeEnd(s) == ValueOf(SubSeq(s, (CHOOSE k \in DashAt(s) : TRUE) + 1, Len(s)))

SegmentValid(s, n) ==
  \/ IsUnsigned(s) /\ 1 <= ValueOf(s) /\ ValueOf(s) <= n
  \/ /\ IsRangeForm(s)
     /\ 1 <= RangeStart(s)
     /\ RangeStart(s) <= RangeEnd(s)
     /\ RangeEnd(s) <= n

\* the call reaches the segment loop
InLoop == Returned /\ ~Falsy(totalPages) /\ ~(IsBlank(input) \/ IsStar(input))

\* the loop reaches segment i: no segment to its left is invalid
Reached(segs, i) == \A j \in 1..(i - 1) : SegmentValid(segs[j], N)

PageSet(pages) == {pages[i] : i \in 1..Len(pages)}

StrictlyIncreasing(pages) ==
  \A i \in 1..Len(pages) : \A j \in 1..Len(pages) : i < j => pages[i] < pages[j]

(***************************************************************************)
(* Properties.                                                             *)
(***************************************************************************)

\* C1: for every input and every totalPages that is undefined or <= 0, the
\* call returns pages = [] and error = "Unknown page count".
C1_UnknownPageCount ==
  Returned /\ (~totalPages.defined \/ totalPages.value <= 0)
    => result = [pages |-> <<>>, error |-> "Unknown page count"]

\* C2: for totalPages > 0, an input that is empty, whitespace-only or "*"
\* after trimming returns pages = [0, ..., totalPages-1] and error = null.
C2_SelectAll ==
  Returned /\ totalPages.defined /\ totalPages.value > 0
           /\ (IsBlank(input) \/ IsStar(input))
    => /\ result.error = null
       /\ Len(result.pages) = totalPages.value
       /\ \A i \in 1..Len(result.pages) : result.pages[i] = i - 1

C2_Witness ==
  /\ Returned
  /\ totalPages = Num(2)
  /\ IsStar(input)
  /\ Len(input) > 1
  /\ result = [pages |-> <<0, 1>>, error |-> null]

\* C3: for every input and every totalPages, pages is non-empty if and only
\* if error is null.
C3_PagesIffNoError ==
  Returned => (result.pages # <<>> <=> result.error = null)

\* the decimal numeral of a positive page number, as characters
RECURSIVE Numeral(_)
Numeral(n) ==
  IF n < 10 THEN <<DigitChars[n + 1]>>
  ELSE Numeral(n \div 10) \o <<DigitChars[(n % 10) + 1]>>

\* a valid segment of a document of n pages, as the pair of its first and
\* last page: a single number is <<a, a, FALSE>>, a range <<a, b, TRUE>>
ValidSegments(n) ==
  {<<a, a, FALSE>> : a \in 1..n}
    \cup {<<sg[1], sg[2], TRUE>> : sg \in {r \in (1..n) \X (1..n) : r[1] <= r[2]}}

SegmentText(sg) ==
  IF sg[3] THEN Numeral(sg[1]) \o <<"-">> \o Numeral(sg[2]) ELSE Numeral(sg[1])

RECURSIVE ListText(_)
ListText(list) ==
  IF Len(list) = 1 THEN SegmentText(list[1])
  ELSE SegmentText(Head(list)) \o <<",">> \o ListText(Tail(list))

ListPages(list) == UNION {(list[i][1] - 1)..(list[i][2] - 1) : i \in 1..Len(list)}

\* the lists of valid segments whose text is among the inputs, each with
\* its text and the set of 0-based pages it names
ValidSelections ==
  [n \in 1..MaxPages |->
     {<<ListText(list), ListPages(list)>> :
        list \in {l \in UNION {[1..k -> ValidSegments(n)] :
                                 k \in 1..((MaxListLen + 1) \div 2)} :
                    Len(ListText(l)) <= MaxListLen}}]

\* C4: for totalPages > 0 and an input made only of valid segments, error is
\* null and pages is the ascending enumeration of the union of the pages the
\* segments name, each page once.
C4_UnionOfSegments ==
  Returned /\ totalPages.defined /\ N >= 1
    => \A sel \in ValidSelections[N] :
         sel[1] = input
           => /\ result.error = null
              /\ PageSet(result.pages) = sel[2]
              /\ Len(result.pages) = Cardinality(sel[2])
              /\ StrictlyIncreasing(result.pages)

\* a single number and a range that overlap
C4_Witness ==
  /\ Returned
  /\ totalPages = Num(2)
  /\ input = <<"1", "-", "2", ",", "1">>
  /\ <<input, {0, 1}>> \in ValidSelections[2]
  /\ result = [pages |-> <<0, 1>>, error |-> null]

\* C5: whenever error is null, pages is strictly increasing and every
\* element lies in [0, totalPages-1], whatever the order of the segments.
C5_AscendingInBounds ==
  Returned /\ result.error = null
    => /\ StrictlyIncreasing(result.pages)
       /\ \A i \in 1..Len(result.pages) :
            0 <= result.pages[i] /\ result.pages[i] <= N - 1

\* segments given in descending order
C5_Witness ==
  /\ Returned
  /\ totalPages = Num(2)
  /\ input = <<"2", ",", "1">>
  /\ result = [pages |-> <<0, 1>>, error |-> null]

\* the error the loop body gives for one segment on its own
SegmentError(segment) == LoopBody(segment, N, <<>>).error

\* C6: the parse is fail-fast: the result is the error of the leftmost
\* invalid segment alone, with pages = [], whatever precedes or follows it.
C6_FailFast ==
  InLoop
    => LET segs == Segments(input)
       IN \A i \in 1..Len(segs) :
            /\ ~SegmentValid(segs[i], N)
            /\ Reached(segs, i)
            => result = [pages |-> <<>>, error |-> SegmentError(segs[i])]

\* a valid segment, then two invalid segments with different errors
C6_Witness ==
  /\ InLoop
  /\ LET segs == Segments(input)
     IN /\ Len(segs) = 3
        /\ SegmentValid(segs[1], N)
        /\ ~SegmentValid(segs[2], N)
        /\ ~SegmentValid(segs[3], N)
        /\ SegmentError(segs[2]) # SegmentError(segs[3])
        /\ result = [pages |-> <<>>, error |-> SegmentError(segs[2])]

\* C7: a range segment with start > end gives pages = [] and the error
\* "Range <segment> is invalid (start greater than end)", also when the range
\* lies outside [1, totalPages].
C7_RangeOrder ==
  InLoop
    => LET segs == Segments(input)
       IN \A i \in 1..Len(segs) :
            /\ IsRangeForm(segs[i])
            /\ RangeStart(segs[i]) > RangeEnd(segs[i])
            /\ Reached(segs, i)
            => result = [pages |-> <<>>,
                         error |-> "Range " \o SegToStr(segs[i])
                                     \o " is invalid (start greater than end)"]

\* start > end > totalPages
C7_Witness ==
  /\ InLoop
  /\ N >= 1
  /\ LET segs == Segments(input)
     IN /\ Len(segs) = 1
        /\ IsRangeForm(segs[1])
        /\ RangeStart(segs[1]) > RangeEnd(segs[1])
        /\ RangeEnd(segs[1]) > N
        /\ result.pages = <<>>
        /\ result.error = "Range " \o SegToStr(segs[1])
                            \o " is invalid (start greater than end)"

\* C8: a range segment with start <= end fails with "Range <segment> is out
\* of bounds" exactly when start < 1 or end > totalPages; within bounds it
\* raises no error and adds every page of [start, end].
C8_RangeBounds ==
  InLoop
    => LET segs == Segments(input)
       IN \A i \in 1..Len(segs) :
            /\ IsRangeForm(segs[i])
            /\ RangeStart(segs[i]) <= RangeEnd(segs[i])
            /\ Reached(segs, i)
            => LET outOfBounds == "Range " \o SegToStr(segs[i]) \o " is out of bounds"
               IN IF RangeStart(segs[i]) < 1 \/ RangeEnd(segs[i]) > N
                    THEN result = [pages |-> <<>>, error |-> outOfBounds]
                    ELSE /\ result.error # outOfBounds
                         /\ result.error # "Range " \o SegToStr(segs[i])
                                             \o " is invalid (start greater than end)"
                         /\ (\A j \in 1..Len(segs) : SegmentValid(segs[j], N))
                              => /\ result.error = null
                                 /\ \A page \in RangeStart(segs[i])..RangeEnd(segs[i]) :
                                      page - 1 \in PageSet(result.pages)

\* a valid segment, then a range that ends past the last page
C8_Witness ==
  /\ InLoop
  /\ N >= 1
  /\ LET segs == Segments(input)
     IN /\ Len(segs) = 2
        /\ SegmentValid(segs[1], N)
        /\ IsRangeForm(segs[2])
        /\ 1 <= RangeStart(segs[2])
        /\ RangeStart(segs[2]) <= RangeEnd(segs[2])
        /\ RangeEnd(segs[2]) > N
        /\ result.pages = <<>>
        /\ result.error = "Range " \o SegToStr(segs[2]) \o " is out of bounds"

\* C9: a segment that is a single unsigned integer n is accepted exactly when
\* 1 <= n <= totalPages; otherwise the result is pages = [] and the error
\* "Page n is out of bounds", provided no segment to its left is invalid.
C9_SinglePageBounds ==
  InLoop
    => LET segs == Segments(input)
       IN \A i \in 1..Len(segs) :
            IsUnsigned(segs[i]) /\ Reached(segs, i)
            => LET n == ValueOf(segs[i])
                   outOfBounds == "Page " \o NumToStr(n) \o " is out of bounds"
               IN IF n < 1 \/ n > N
                    THEN result = [pages |-> <<>>, error |-> outOfBounds]
                    ELSE /\ result.error # outOfBounds
                         /\ (\A j \in 1..Len(segs) : SegmentValid(segs[j], N))
                              => /\ result.error = null
                                 /\ n - 1 \in PageSet(result.pages)

\* page 0 after a valid segment
C9_Witness ==
  /\ InLoop
  /\ N >= 1
  /\ LET segs == Segments(input)
     IN /\ Len(segs) = 2
        /\ SegmentValid(segs[1], N)
        /\ IsUnsigned(segs[2])
        /\ ValueOf(segs[2]) = 0
        /\ result = [pages |-> <<>>, error |-> "Page 0 is out of bounds"]

\* C10: a segment that is neither an unsigned integer nor of the form
\* <unsigned>-<unsigned> gives pages = [] and the error
\* "\"<segment>\" is not a valid page or range", provided no segment to its
\* left is invalid.
C10_Malformed ==
  InLoop
    => LET segs == Segments(input)
       IN \A i \in 1..Len(segs) :
            /\ ~IsUnsigned(segs[i])
            /\ ~IsRangeForm(segs[i])
            /\ Reached(segs, i)
            => result = [pages |-> <<>>,
                         error |-> "\"" \o SegToStr(segs[i])
                                     \o "\" is not a valid page or range"]

\* "*" inside a list, after a valid segment
C10_Witness ==
  /\ InLoop
  /\ N >= 1
  /\ LET segs == Segments(input)
     IN /\ Len(segs) = 2
        /\ SegmentValid(segs[1], N)
        /\ segs[2] = <<"*">>
        /\ result = [pages |-> <<>>, error |-> "\"*\" is not a valid page or range"]

\* the input without its whitespace
Stripped(s) == SelectSeq(s, LAMBDA c : c \notin {" ", "\t", "\n", "\r"})

\* the maximal comma-free pieces of s, each as the pair of its first and
\* last position
Pieces(s) ==
  {pc2 \in (1..Len(s)) \X (1..Len(s)) :
     /\ pc2[1] <= pc2[2]
     /\ \A k \in pc2[1]..pc2[2] : s[k] # ","
     /\ (pc2[1] = 1 \/ s[pc2[1] - 1] = ",")
     /\ (pc2[2] = Len(s) \/ s[pc2[2] + 1] = ",")}

Piece(s, pc2) == SubSeq(s, pc2[1], pc2[2])

\* s has a leading, trailing or doubled comma
HasEmptySegment(s) ==
  /\ Len(s) >= 1
  /\ \/ s[1] = ","
     \/ s[Len(s)] = ","
     \/ \E k \in 1..(Len(s) - 1) : s[k] = "," /\ s[k + 1] = ","

\* the 0-based pages a valid segment names
PagesOf(seg) ==
  IF IsUnsigned(seg) THEN {ValueOf(seg) - 1}
  ELSE (RangeStart(seg) - 1)..(RangeEnd(seg) - 1)

\* C11: an input that is not blank or "*" and leaves no non-empty segment
\* returns pages = [] and "Enter at least one page number or range"; the empty
\* segments of leading, trailing or doubled commas beside another segment are
\* dropped and cause no error.
C11_EmptySegments ==
  InLoop
    => LET s == Stripped(input)
       IN /\ Pieces(s) = {}
               => result = [pages |-> <<>>,
                            error |-> "Enter at least one page number or range"]
          /\ Pieces(s) # {}
               => /\ result.error # "Enter at least one page number or range"
                  /\ result.error # "\"\" is not a valid page or range"
                  /\ (\A pc2 \in Pieces(s) : SegmentValid(Piece(s, pc2), N))
                       => /\ result.error = null
                          /\ PageSet(result.pages)
                               = UNION {PagesOf(Piece(s, pc2)) : pc2 \in Pieces(s)}

\* commas alone
C11_Witness ==
  /\ InLoop
  /\ N >= 1
  /\ input = <<",", " ", ",">>
  /\ result = [pages |-> <<>>, error |-> "Enter at least one page number or range"]

\* C12: "No valid pages selected" is never returned: a parse in which every
\* segment passes its checks ends with a non-empty page set.
C12_NoValidPagesUnreachable ==
  Returned
    => /\ result.error # "No valid pages selected"
       /\ InLoop /\ Pieces(Stripped(input)) # {}
            /\ (\A pc2 \in Pieces(Stripped(input)) :
                  SegmentValid(Piece(Stripped(input), pc2), N))
            => result.error = null /\ result.pages # <<>>

\* a range of one page is the only segment
C12_Witness ==
  /\ InLoop
  /\ input = <<"2", "-", "2">>
  /\ totalPages = Num(2)
  /\ result = [pages |-> <<1>>, error |-> null]

\* C13: whitespace anywhere in the input is ignored: the result is that of
\* the input without its whitespace, so two inputs that differ only in
\* whitespace have the same result.
C13_WhitespaceIgnored ==
  Returned => result = parsePageSelection(Stripped(input), totalPages)

\* whitespace inside a range
C13_Witness ==
  /\ Returned
  /\ totalPages = Num(2)
  /\ input = <<"1", " ", "-", "2">>
  /\ result = [pages |-> <<0, 1>>, error |-> null]

(***************************************************************************)
(* Properties of the merger.                                               *)
(***************************************************************************)
\* the selection of a listed file names pages of the file and nothing else
SelectionValid(pdf) ==
  /\ pdf.totalPages >= 1
  /\ \/ IsBlank(pdf.pageSelection)
     \/ IsStar(pdf.pageSelection)
     \/ LET s == Stripped(pdf.pageSelection)
        IN /\ Pieces(s) # {}
           /\ \A pc2 \in Pieces(s) : SegmentValid(Piece(s, pc2), pdf.totalPages)

\* the 0-based pages a valid selection names
SelectedPages(pdf) ==
  IF IsBlank(pdf.pageSelection) \/ IsStar(pdf.pageSelection)
    THEN 0..(pdf.totalPages - 1)
    ELSE LET s == Stripped(pdf.pageSelection)
         IN UNION {PagesOf(Piece(s, pc2)) : pc2 \in Pieces(s)}

\* the position in the list files of the file with this id
PositionOf(files, id) == CHOOSE i \in 1..Len(files) : files[i].id = id

\* doc is the selected pages of the files of the list, file after file in
\* list order, the pages of one file ascending
IsMergeOf(doc, files) ==
  /\ {doc[k] : k \in 1..Len(doc)}
       = UNION {{<<files[i].id, page>> : page \in SelectedPages(files[i])} :
                  i \in 1..Len(files)}
  /\ \A a \in 1..Len(doc) : \A b \in 1..Len(doc) :
       a < b
         => \/ PositionOf(files, doc[a][1]) < PositionOf(files, doc[b][1])
            \/ doc[a][1] = doc[b][1] /\ doc[a][2] < doc[b][2]

\* a call of mergePDFs gets past its guard
MergeIsStarted == ~mergeJob.running /\ mergeJob'.running

\* a call of mergePDFs ends
MergeIsEnded == mergeJob.running /\ ~mergeJob'.running

\* C14: a successful mergePDFs builds the concatenation, in the order of the
\* list shown when it was started, of each file's selected pages in ascending
\* page order, and that document is what it stores.
C14_MergedInListOrder ==
  [][/\ MergeIsStarted /\ mergeJob'.error = null
          => IsMergeOf(mergeJob'.doc, pdfFiles)
     /\ MergeIsEnded /\ mergedPdf' # mergedPdf
          => mergedPdf' = [present |-> TRUE, pages |-> mergeJob.doc]]_vars

\* the second file dragged to the front and given "2,1", then merged
C14_Witness ==
  /\ Len(pdfFiles) = 2
  /\ pdfFiles[1].id = 2
  /\ pdfFiles[1].pageSelection = <<"2", ",", "1">>
  /\ pdfFiles[2].totalPages = 1
  /\ mergedPdf = [present |-> TRUE, pages |-> <<<<2, 0>>, <<2, 1>>, <<1, 0>>>>]

\* items without the item at position k
Without(items, k) ==
  [i \in 1..(Len(items) - 1) |-> IF i < k THEN items[i] ELSE items[i + 1]]

C16_ErrorMatchesSelection ==
  \A i \in 1..Len(pdfFiles) :
    pdfFiles[i].pageSelectionError
      = parsePageSelection(pdfFiles[i].pageSelection,
                           Num(pdfFiles[i].totalPages)).error

\* C17: mergePDFs stores an output only if the list holds at least 2 files
\* and every selection parses against its file's page count; a call stopped
\* by its guard or by a selection leaves mergedPdf as it was, and merging is
\* false when a call ends.
C17_MergeOnlyWhenValid ==
  [][/\ MergeIsStarted
          => /\ Len(pdfFiles) >= 2
             /\ mergeJob'.error = null
                  <=> \A i \in 1..Len(pdfFiles) : SelectionValid(pdfFiles[i])
             /\ mergedPdf' = mergedPdf
     /\ MergeIsEnded
          => /\ ~merging'
             /\ mergeJob.error # null => mergedPdf' = mergedPdf
             /\ mergedPdf' # mergedPdf
                  => mergeJob.error = null /\ Len(mergeJob.files) >= 2
     /\ mergedPdf' # mergedPdf /\ mergedPdf'.present
          => MergeIsEnded /\ mergeJob.error = null /\ Len(mergeJob.files) >= 2]_vars

\* an earlier output is on offer while a merge that a selection will stop is
\* in flight
C17_Witness ==
  /\ mergedPdf.present
  /\ mergeJob.running
  /\ mergeJob.error # null
  /\ \E i \in 1..Len(pdfFiles) : ~SelectionValid(pdfFiles[i])

(***************************************************************************)
(* Properties of the splitter.  The lines of the range field are read      *)
(* here from the positions of its line feeds, without the operators of     *)
(* handleSplit.                                                            *)
(***************************************************************************)
\* the positions around the lines of a text: before it, its line feeds,
\* after it
LineBounds(text) ==
  {0} \cup {k \in 1..Len(text) : text[k] = "\n"} \cup {Len(text) + 1}

\* a line lies between two neighbouring bounds
LineSpans(text) ==
  {sp \in LineBounds(text) \X LineBounds(text) :
     /\ sp[1] < sp[2]
     /\ \A k \in LineBounds(text) : ~(sp[1] < k /\ k < sp[2])}

SpanText(text, sp) == SubSeq(text, sp[1] + 1, sp[2] - 1)

NonBlankSpans(text) == {sp \in LineSpans(text) : ~IsBlank(SpanText(text, sp))}

NonBlankCount(text) == Cardinality(NonBlankSpans(text))

\* the 1-based position of a line among the non-blank lines
LineNumber(text, sp) ==
  1 + Cardinality({o \in NonBlankSpans(text) : o[1] < sp[1]})

\* the k-th non-blank line
NonBlankLine(text, k) ==
  SpanText(text, CHOOSE sp \in NonBlankSpans(text) : LineNumber(text, sp) = k)

\* what the parser makes of each non-blank line of a text, for n pages
LineTable(text, n) ==
  [k \in 1..NonBlankCount(text) |->
     parsePageSelection(NonBlankLine(text, k), Num(n))]

LineParses(t, k) == t[k].error = null

LinePages(t, k) == PageSet(t[k].pages)

\* the accepted lines among the first k: a line is accepted when it parses
\* and shares no page with an accepted line above it
RECURSIVE AcceptedUpTo(_, _)
AcceptedUpTo(t, k) ==
  IF k = 0 THEN {}
  ELSE LET above == AcceptedUpTo(t, k - 1)
       IN IF /\ LineParses(t, k)
             /\ \A j \in above : LinePages(t, j) \cap LinePages(t, k) = {}
            THEN above \cup {k}
            ELSE above

AllLinesAccepted(t) == AcceptedUpTo(t, Len(t)) = 1..Len(t)

\* the pages line k shares with the accepted lines above it
SharedPages(t, k) ==
  LinePages(t, k) \cap UNION {LinePages(t, j) : j \in AcceptedUpTo(t, k - 1)}

LineOverlaps(t, k) == LineParses(t, k) /\ SharedPages(t, k) # {}

\* the lines that fail: the parser refuses them, or they share a page with
\* an accepted line above them
FailingLines(t) == {k \in 1..Len(t) : ~LineParses(t, k) \/ LineOverlaps(t, k)}

Lowest(pages) == CHOOSE m \in pages : \A x \in pages : m <= x

\* the entries of a list of errors that carry line number k
ErrorsOn(errors, k) == {i \in 1..Len(errors) : errors[i].line = k}

PartsDisjoint(results) ==
  \A i \in 1..Len(results) : \A j \in 1..Len(results) :
    i # j => PageSet(results[i].pages) \cap PageSet(results[j].pages) = {}

SplitIsStarted == ~splitJob.running /\ splitJob'.running

SplitIsEnded == splitJob.running /\ ~splitJob'.running

\* C18: the parts handleSplit produces have pairwise disjoint page sets: a
\* line that shares a page with an accepted line above it gets the overlap
\* error naming the lowest shared page, counted from 1, and claims no page,
\* so that a line below it that shares pages with it alone is accepted.
C18_PartsDisjoint ==
  [][/\ SplitIsStarted
          => LET t == LineTable(rangesInput, pdfBytes.pages)
                 errors == splitJob'.localErrors
                 parts == splitJob'.pendingResults
             IN /\ \A k \in 1..Len(t) :
                     /\ LineOverlaps(t, k)
                          => \E i \in ErrorsOn(errors, k) :
                               errors[i].message
                                 = "Range overlaps with previously defined pages (page "
                                     \o NumToStr(Lowest(SharedPages(t, k)) + 1)
                                     \o ")."
                     /\ LineParses(t, k) /\ ~LineOverlaps(t, k)
                          => /\ ErrorsOn(errors, k) = {}
                             /\ \E i \in 1..Len(parts) :
                                  PageSet(parts[i].pages) = LinePages(t, k)
                /\ PartsDisjoint(parts)
     /\ splitResults' # splitResults => PartsDisjoint(splitResults')]_vars

\* the second of three lines overlaps the first, the third shares a page
\* with the second alone: the second line alone is in error
C18_Witness ==
  /\ pdfBytes = Bytes(2)
  /\ rangesInput = <<"1", "\n", "1", "-", "2", "\n", "2">>
  /\ ~splitJob.running
  /\ rangeErrors
       = <<[line |-> 2,
            message |-> "Range overlaps with previously defined pages (page 1)."]>>

\* the name of part k of a document: its base name, or "document" where the
\* base name is empty, then -part-k, then its extension
PartFileName(info, k) ==
  (IF Len(info.baseName) = 0
     THEN <<"d", "o", "c", "u", "m", "e", "n", "t">>
     ELSE info.baseName)
    \o <<"-", "p", "a", "r", "t", "-">> \o Numeral(k) \o info.extension

C20_EveryFailingLine ==
  [][/\ SplitIsStarted
          => LET t == LineTable(rangesInput, pdfBytes.pages)
                 errors == splitJob'.localErrors
             IN /\ rangeErrors' = <<>>
                /\ Len(errors) = Cardinality(FailingLines(t))
                /\ \A k \in FailingLines(t) : Cardinality(ErrorsOn(errors, k)) = 1
                /\ \A i \in 1..Len(errors) :
                     /\ errors[i].line \in FailingLines(t)
                     /\ \A j \in 1..(i - 1) : errors[j].line < errors[i].line
                     /\ ~LineParses(t, errors[i].line)
                          => errors[i].message = t[errors[i].line].error
     /\ SplitIsEnded
          => \/ rangeErrors' = splitJob.localErrors /\ splitJob.localErrors # <<>>
             \/ rangeErrors' = rangeErrors
     /\ rangeErrors' # rangeErrors /\ rangeErrors' # <<>>
          => /\ SplitIsEnded
             /\ rangeErrors' = splitJob.localErrors]_vars

\* a one-page document and three lines, the first blank: both other lines
\* are reported, numbered 1 and 2
C20_Witness ==
  /\ pdfBytes = Bytes(1)
  /\ rangesInput = <<" ", "\n", "2", "\n", "1", "-", "2">>
  /\ ~splitJob.running
  /\ splitResults = <<>>
  /\ rangeErrors
       = <<[line |-> 1, message |-> "Page 2 is out of bounds"],
           [line |-> 2, message |-> "Range 1-2 is out of bounds"]>>

(***************************************************************************)
(* Properties of the password tool.                                        *)
(***************************************************************************)
ProtectIsStarted == ~protectJob.running /\ protectJob'.running

\* a call of processPdfs from its button
ProcessPdfsIsCalled == ProcessNoPassword \/ ProcessMismatch \/ ProcessStart

\* the user password is given and the confirmation equals it
PasswordConfirmed == passwordOptions.user # "" /\ passwordOptions.confirm = passwordOptions.user

\* C21: processPdfs starts the encryption only when the user password is not
\* empty and the confirmation equals it; a call with another pair of fields
\* shows an error and leaves processing and processedFiles as they were.
C21_EncryptsOnlyConfirmed ==
  [][/\ ProtectIsStarted => PasswordConfirmed
     /\ ProcessPdfsIsCalled /\ ~PasswordConfirmed
          => /\ protectNotification'.type = "error"
             /\ UNCHANGED <<protectProcessing, processedFiles>>]_vars

(***************************************************************************)
(* The page remover and the page organizer: the pages never run out.       *)
(***************************************************************************)
\* a call of handleRemoveSelected that passes its first two guards
HandleRemoveSelectedIsCalled == RemoveAllMarked \/ RemoveStart

\* every page of the page remover is marked for removal
EveryPageMarked ==
  \A i \in 1..Len(removerPages) : removerPages[i].selectedForRemoval

\* a call of removePage on a page of the list
RemovePageIsCalled == \E id \in Ids(organizerPages) : RemovePage(id)

RemoverIsStarted == ~removerJob.running /\ removerJob'.running

\* a loaded document has a page in the working list
PagesLeft ==
  /\ removerPdfInfo.present
       => Len(removerPages) >= 1 /\ Len(removerPdfBytes.doc) >= 1
  /\ organizerPdfInfo.present => Len(organizerPages) >= 1

\* C22: in the page remover and in the page organizer a loaded document
\* has at least one page in the working list (and, in the remover, in its
\* bytes) at the start and after every step; handleRemoveSelected with every page marked starts no
\* removal and leaves pages, pdfBytes and pdfInfo as they are, and so does
\* removePage on a list of one page.
C22_NeverZeroPages ==
  /\ PagesLeft
  /\ [][/\ PagesLeft'
        /\ HandleRemoveSelectedIsCalled /\ EveryPageMarked
             => /\ ~RemoverIsStarted
                /\ UNCHANGED <<removerPages, removerPdfBytes, removerPdfInfo>>
        /\ RemovePageIsCalled /\ Len(organizerPages) = 1
             => UNCHANGED <<organizerPages, organizerPdfBytes,
                            organizerPdfInfo>>]_vars

\* one page is left of a file of several after a removal, and it is marked:
\* handleRemoveSelected meets its guard on pagesToKeep
C22_Witness ==
  /\ RemoveClickable
  /\ EveryPageMarked
  /\ Len(removerPages) = 1
  /\ removerPdfBytes.doc = <<2>>
  /\ removerDownload.present
  /\ removerDownload.doc = <<2>>

(***************************************************************************)
(* The page organizer: the original arrangement.                           *)
(***************************************************************************)
\* the sequence built when a document of n pages is loaded: page k under
\* the id it was given at the load, not rotated, not marked
LoadedSequence(n) ==
  [k \in 1..n |->
     [id |-> k, sourceIndex |-> k - 1, rotation |-> 0, selected |-> FALSE]]

\* a call of onDragEnd, rotatePage, duplicatePage, removePage,
\* toggleSelection, selectAll or clearSelection
PageGridIsEdited ==
  \/ \E source, destination \in 0..(Len(organizerPages) - 1) :
       OrganizerOnDragEnd(source, destination)
  \/ \E id \in Ids(organizerPages) :
       \/ \E direction \in Directions : RotatePage(id, direction)
       \/ DuplicatePage(id)
       \/ RemovePage(id)
       \/ ToggleSelection(id)
  \/ SelectAll
  \/ ClearSelection

\* the stored original of a loaded document is the sequence built at the load
OriginalIsLoaded ==
  organizerPdfInfo.present
    => originalPagesRef = LoadedSequence(organizerPdfInfo.totalPages)

\* C23: in the page organizer the stored original of a loaded document is,
\* at the start and after every step, the sequence built at the load (ids,
\* order, rotation 0, no mark), and no reorder, rotation, duplication,
\* removal or marking is a step that alters it; a call of
\* restoreOriginalArrangement makes pages equal to that sequence.
C23_RestoreGivesLoaded ==
  /\ OriginalIsLoaded
  /\ [][/\ OriginalIsLoaded'
        /\ originalPagesRef' # originalPagesRef => ~PageGridIsEdited
        /\ RestoreOriginalArrangement
             => /\ organizerPages' = LoadedSequence(organizerPdfInfo.totalPages)
                /\ UNCHANGED originalPagesRef]_vars

\* of the two pages loaded the first is removed, the second is rotated and
\* marked and stands behind its duplicate: a restore has all of it to undo
C23_Witness ==
  /\ OrganizerEditable
  /\ Len(originalPagesRef) = 2
  /\ Len(organizerPages) = 2
  /\ organizerPages[1].id = 3
  /\ organizerPages[2].id = 2
  /\ organizerPages[2].rotation = 270
  /\ organizerPages[2].selected

(***************************************************************************)
(* The merger, the splitter and the page remover: after a reset.           *)
(***************************************************************************)
\* the page remover holds no document bytes and no page list
RemoverIsEmpty == ~removerPdfBytes.present /\ removerPages = <<>>

\* the splitter holds no document bytes and no split results
SplitterIsEmpty == ~pdfBytes.present /\ splitResults = <<>>

\* the merger holds no file and no merged output
MergerIsEmpty == pdfFiles = <<>> /\ ~mergedPdf.present

\* a file is dropped on the page remover, on the splitter, on the merger
RemoverIsDropped ==
  \/ \E file \in RemoverFiles : RemoverOnDrop(file.name, file.pages)
  \/ RemoverOnDropFails

SplitterIsDropped ==
  \/ \E file \in SplitterFiles : SplitterOnDrop(file.name, file.pages)
  \/ SplitterOnDropFails

MergerIsDropped ==
  \E counts \in UNION {[1..k -> PageCounts] : k \in 1..MaxDrops} : OnDrop(counts)

\* C24: a tool that is empty, as a reset leaves it, stays empty in every
\* step that is not a file drop, the end of a removal, split or merge that
\* was in flight at the reset included.
C24_EmptyUntilDrop ==
  [][/\ RemoverIsEmpty /\ ~RemoverIsEmpty' => RemoverIsDropped
     /\ SplitterIsEmpty /\ ~SplitterIsEmpty' => SplitterIsDropped
     /\ MergerIsEmpty /\ ~MergerIsEmpty' => MergerIsDropped]_vars

(***************************************************************************)
(* The merger: the merged output and the list.                             *)
(***************************************************************************)
\* the merged output, where there is one, is the merge of the list as it
\* stands: every selection of the list is valid and the output holds the
\* selected pages of its files in the order of the list
MergedIsCurrent ==
  mergedPdf.present
    => /\ \A i \in 1..Len(pdfFiles) : SelectionValid(pdfFiles[i])
       /\ IsMergeOf(mergedPdf.pages, pdfFiles)

\* C25: in the merger a merged output that is offered is, at the start and
\* after every step, the merge of the list as it stands, and a step that
\* changes the list (a file added, removed, moved, or given another page
\* selection) leaves no merged output.
C25_OutputIsCurrent ==
  /\ MergedIsCurrent
  /\ [][/\ MergedIsCurrent'
        /\ pdfFiles' # pdfFiles => ~mergedPdf'.present]_vars

(***************************************************************************)
(* The four tools: the busy flag.                                          *)
(***************************************************************************)
OrganizerIsStarted == ~organizerJob.running /\ organizerJob'.running

\* C26: a busy flag (merging, splitting, processing of the page remover and
\* of the organizer) that is true is false again later, and a call of
\* mergePDFs, handleSplit, handleRemoveSelected or handleExport gets past
\* its guards only in a state where the flag of its tool is false.
C26_BusyFlagResets ==
  /\ merging ~> ~merging
  /\ splitting ~> ~splitting
  /\ removerProcessing ~> ~removerProcessing
  /\ organizerProcessing ~> ~organizerProcessing
  /\ [][/\ MergeIsStarted => ~merging /\ merging'
        /\ SplitIsStarted => ~splitting /\ splitting'
        /\ RemoverIsStarted => ~removerProcessing /\ removerProcessing'
        /\ OrganizerIsStarted
             => ~organizerProcessing /\ organizerProcessing']_vars

\* a merge is in flight with merging true and will return at a selection
\* that is refused
C26_Witness ==
  /\ merging
  /\ mergeJob.running
  /\ mergeJob.error # null

====
